---- MODULE Spec2Model ----
(***************************************************************************)
(* binlib (src/customtweak.js lines 63-1407): C-like binary structures.    *)
(*                                                                         *)
(* The model follows the library's three parts: the struct builder         *)
(* (Struct.$init / $addMember), the context ($define, $getStruct) and the  *)
(* two traversals (DataReader, DataUpdater) over a byte buffer.            *)
(*                                                                         *)
(* Representation.                                                         *)
(*   - A flag word is the set of the names of its bits.                    *)
(*   - A JS number is an integer of the int32 range; the 32-bit operators  *)
(*     (<<, >>, >>>, &, |, ~, clz32) work on the two's complement bits.    *)
(*     Numbers in [2^31, 2^32) cannot be held by TLC integers: the read of  *)
(*     an unsigned 4-byte value with the top bit set is reported as        *)
(*     "wide" and the calls that meet one are left out (see IsWide).       *)
(*   - null is the sentinel NoType for a type and VNull for a field of an  *)
(*     object; undefined is the absence of a record field.                 *)
(*   - The byte at offset o of a buffer b is b[o + 1].                     *)
(***************************************************************************)
EXTENDS Integers, Sequences, FiniteSets, TLC

VARIABLES
  ctx,      \* Context: full name -> Type
  defined,  \* number of Catalog entries handed to $define so far
  defLog,   \* outcome of each $define call, in order
  buffer,   \* the bytes of the buffer given to $readObject / $updateObject
  rd,       \* the last $readObject call: options, outcome, log, final cursor
  object,   \* the object graph the caller holds (NoObject before a read)
  edits,    \* the caller's changes of the graph since it was read: position -> change
  up,       \* the last $updateObject call: outcome, bytes before, write trace
  vb,       \* the last extractPowerPlayFromVBIOS call: offset, outcome, bytes returned
  cmd,      \* the Commander of amdtweak.js: argn, cards, data, outcome, files written
  walk      \* a decode in progress, call by call: outcome, maxDepth, the readObject calls on the stack

vars == <<ctx, defined, defLog, buffer, rd, object, edits, up, vb, cmd, walk>>

-----------------------------------------------------------------------------
(* Sequences *)

Last(s) == s[Len(s)]

RECURSIVE SeqToSet(_)
SeqToSet(s) == IF s = <<>> THEN {} ELSE {Head(s)} \cup SeqToSet(Tail(s))

-----------------------------------------------------------------------------
(* 32-bit integer operators of JS, on int32 values *)

MinInt32 == -2147483647 - 1

\* Bit i (0..31) of the two's complement form of the int32 x.
Bit(x, i) == IF i = 31 THEN (IF x < 0 THEN 1 ELSE 0) ELSE (x \div (2^i)) % 2

RECURSIVE LowSum(_, _)
LowSum(f, i) == IF i > 30 THEN 0 ELSE f[i] * (2^i) + LowSum(f, i + 1)

\* The int32 whose bit i is f[i].
FromBits(f) == IF f[31] = 1 THEN LowSum(f, 0) + MinInt32 ELSE LowSum(f, 0)

\* a & b
BitAnd(a, b) == FromBits([i \in 0..31 |-> Bit(a, i) * Bit(b, i)])

\* a | b
BitOr(a, b) ==
  FromBits([i \in 0..31 |-> IF Bit(a, i) + Bit(b, i) > 0 THEN 1 ELSE 0])

\* ~a
BitNot(a) == -(a + 1)

\* a << n
Shl(a, n) ==
  LET k == n % 32
  IN FromBits([i \in 0..31 |-> IF i >= k THEN Bit(a, i - k) ELSE 0])

\* a >> n (sign-propagating)
Sar(a, n) == a \div (2^(n % 32))

\* a >>> n (zero-fill); the result of a >>> 0 for a < 0 is not an int32.
UShr(a, n) ==
  LET k == n % 32
  IN FromBits([i \in 0..31 |-> IF i + k <= 31 THEN Bit(a, i + k) ELSE 0])

RECURSIVE Clz(_, _)
Clz(x, i) == IF i < 0 THEN 32 ELSE IF Bit(x, i) = 1 THEN 31 - i ELSE Clz(x, i - 1)

clz32(x) == Clz(x, 31)

bitSizeOf(x) == 32 - clz32(x)

\* x >= 32 ? 0xFFFFFFFF : (1 << x) - 1; as an int32 (every use applies | 0 or <<).
bitMaskOf(x) ==
  IF x >= 32 THEN -1
  ELSE IF x % 32 = 31 THEN 2147483647
  ELSE Shl(1, x) - 1

-----------------------------------------------------------------------------
(* binlib.FLAGS *)

SIGN     == {"SIGNED", "UNSIGNED"}
ENDIAN   == {"LITTLE_ENDIAN", "BIG_ENDIAN"}
OFFSET   == {"ABSOLUTE_OFFSET", "RELATIVE_OFFSET"}
ENCODING == {"ASCII", "HEX"}

FLAGS_PRIMITIVE_ALL ==
  {"PRIMITIVE", "LITTLE_ENDIAN", "BIG_ENDIAN", "FLOAT", "SIGNED", "UNSIGNED"}

updateFlags(existing, add) ==
  LET clear == (IF add \cap SIGN     # {} THEN SIGN     ELSE {}) \cup
               (IF add \cap ENDIAN   # {} THEN ENDIAN   ELSE {}) \cup
               (IF add \cap OFFSET   # {} THEN OFFSET   ELSE {}) \cup
               (IF add \cap ENCODING # {} THEN ENCODING ELSE {})
  IN (existing \ clear) \cup add

-----------------------------------------------------------------------------
(* binlib.Type and the built-in types *)

\* $length of a member: a number (-1 when not given) or the name of a field.
LenNum(n)   == [k |-> "number", n |-> n, s |-> ""]
LenField(s) == [k |-> "string", n |-> 0, s |-> s]

Type(name, size, flags) ==
  [name |-> name, fullName |-> name, size |-> size, flags |-> flags,
   verInfo |-> <<>>, version |-> <<>>, members |-> <<>>]

\* null where a Type is expected.
NoType == Type("", 0, {})

I8    == Type("I8",    1, {"PRIMITIVE", "SIGNED"})
U8    == Type("U8",    1, {"PRIMITIVE", "UNSIGNED"})
I16LE == Type("I16LE", 2, {"PRIMITIVE", "LITTLE_ENDIAN", "SIGNED"})
U16LE == Type("U16LE", 2, {"PRIMITIVE", "LITTLE_ENDIAN", "UNSIGNED"})
U16BE == Type("U16BE", 2, {"PRIMITIVE", "BIG_ENDIAN", "UNSIGNED"})
U24LE == Type("U24LE", 3, {"PRIMITIVE", "LITTLE_ENDIAN", "UNSIGNED"})
I32LE == Type("I32LE", 4, {"PRIMITIVE", "LITTLE_ENDIAN", "SIGNED"})
U32LE == Type("U32LE", 4, {"PRIMITIVE", "LITTLE_ENDIAN", "UNSIGNED"})
Str   == Type("Str",   0, {"STRING", "ASCII"})
Hex   == Type("Hex",   0, {"STRING", "HEX"})
Arr   == Type("Array", 0, {"ARRAY"})

BuiltInTypes == <<I8, U8, I16LE, U16LE, U16BE, U24LE, I32LE, U32LE, Str, Hex, Arr>>

hasVersion(version) == version # <<>>

RECURSIVE JoinDot(_)
JoinDot(v) ==
  IF Len(v) = 0 THEN ""
  ELSE IF Len(v) = 1 THEN ToString(v[1])
  ELSE ToString(v[1]) \o "." \o JoinDot(Tail(v))

fullNameOf(name, version) ==
  IF version = <<>> THEN name ELSE name \o "$" \o JoinDot(version)

-----------------------------------------------------------------------------
(* binlib.Struct *)

\* The own properties of a Struct instance: its fields and one per member.
Own(s) ==
  {"$name", "$fullName", "$size", "$flags", "$verInfo", "$version", "$members"}
    \cup {s.members[i].name : i \in 1..Len(s.members)}

Has(opt, k) == k \in DOMAIN opt

Failed(s, msg) == [ok |-> FALSE, s |-> s, err |-> msg]

\* A continued bit-field whose mask is not shifted past the bits in use (the
\* packing C5 rules out).
BitFieldContinueUnshifted(prev, bitSize, remainingBitShift) ==
  [offset |-> prev.offset, bitMask |-> bitMaskOf(bitSize), bitShift |-> 0,
   advance |-> FALSE]

\* The bit-field placement of a primitive member with $bitSize: continue the
\* previous member's word (same offset, no advance) or start a new one.
BitFieldContinue(prev, bitSize, remainingBitShift) ==
  [offset |-> prev.offset, bitMask |-> Shl(bitMaskOf(bitSize), remainingBitShift),
   bitShift |-> remainingBitShift, advance |-> FALSE]

BitFieldFresh(bitSize) ==
  [offset |-> 0, bitMask |-> BitOr(bitMaskOf(bitSize), 0), bitShift |-> 0,
   advance |-> TRUE]

\* A member offset that ignores the size of the struct so far (the layout C6
\* rules out).
MemberOffsetUnadvanced(s, place) == place.offset

\* The $offset of a member: the struct's size when it is added, unless it
\* continues the previous member's bit-field.
MemberOffset(s, place) == IF place.advance THEN s.size ELSE place.offset

\* The tail of $addMember: the member is pushed and the struct advances
\* unless the member continues a bit-field.
PushMember(s, opt, flags, size, place) ==
  LET member == [name     |-> opt.name,
                 type     |-> opt.type,
                 size     |-> size,
                 flags    |-> flags,
                 bitMask  |-> place.bitMask,
                 bitShift |-> place.bitShift,
                 offset   |-> MemberOffset(s, place),
                 ref      |-> IF Has(opt, "ref") THEN opt.ref ELSE NoType,
                 length   |-> IF Has(opt, "length") THEN opt.length ELSE LenNum(-1),
                 version  |-> IF Has(opt, "version") THEN opt.version ELSE ""]
  IN [ok  |-> TRUE,
      s   |-> [s EXCEPT !.members = Append(@, member),
                        !.size = IF place.advance THEN @ + size ELSE @],
      err |-> ""]

\* The byte size of a fixed-length array member.
ArraySize(ref, length) == ref.size * length.n

\* $addMember from the check of the previous member on: sizeS is the size
\* after the string rule, prev the last member (bitMask 0 if there is none).
PlaceMember(s, opt, flags, sizeS, bitSize, prev, remainingBitShift, remainingBitCount) ==
  LET \* member.$length is -1, a number, when the spec gives none
      length     == IF Has(opt, "length") THEN opt.length ELSE LenNum(-1)
      fixedArray == "PRIMITIVE" \notin flags /\ "ARRAY" \in flags
                    /\ length.k = "number"
  IN
  IF remainingBitCount < 0 THEN Failed(s, "remaining bit-count")
  ELSE IF remainingBitCount # 0 /\ "PRIMITIVE" \notin flags
    THEN Failed(s, "unclosed bit-field")
  ELSE IF remainingBitCount # 0 /\ prev.size # sizeS
    THEN Failed(s, "bit-field size mismatch")
  ELSE IF remainingBitCount # 0 /\ bitSize > remainingBitCount
    THEN Failed(s, "bit-field does not fit")
  ELSE IF "PRIMITIVE" \in flags /\ bitSize # 0
    THEN PushMember(s, opt, flags, sizeS,
                    IF remainingBitCount # 0
                    THEN BitFieldContinue(prev, bitSize, remainingBitShift)
                    ELSE BitFieldFresh(bitSize))
  ELSE IF fixedArray /\ (~Has(opt, "ref") \/ opt.ref = NoType)
    THEN Failed(s, "TypeError: $ref is null")
  ELSE PushMember(s, opt, flags,
                  IF fixedArray THEN ArraySize(opt.ref, length) ELSE sizeS,
                  [offset |-> 0, bitMask |-> 0, bitShift |-> 0, advance |-> TRUE])

\* A builder that takes any $bitSize as it comes (the definitions C18 rules
\* out).
CheckBitsSkipped(s, opt, flags, sizeS, bitSize, prev) ==
  PlaceMember(s, opt, flags, sizeS, bitSize, prev, 0, 0)

\* $addMember from the bit-field checks on.
CheckBits(s, opt, flags, sizeS, bitSize, prev) ==
  IF bitSize # 0 /\ flags \cap {"STRING", "ARRAY", "STRUCT"} # {}
    THEN Failed(s, "$bitSize for non-primitive")
  ELSE IF bitSize # 0 /\ bitSize > sizeS * 8 THEN Failed(s, "$bitSize too big")
  ELSE IF prev.bitMask # 0
    THEN PlaceMember(s, opt, flags, sizeS, bitSize, prev,
           prev.bitShift + bitSizeOf(UShr(prev.bitMask, prev.bitShift)),
           prev.size * 8 - (prev.bitShift + bitSizeOf(UShr(prev.bitMask, prev.bitShift))))
  ELSE PlaceMember(s, opt, flags, sizeS, bitSize, prev, 0, 0)

\* $addMember once name and $type are there.
AddTyped(s, opt, flags) ==
  LET derived == Has(opt, "bitMask") /\ Has(opt, "bitShift")
  IN
  IF Has(opt, "bitSize") /\ opt.bitSize <= 0 THEN Failed(s, "$bitSize zero or less")
  ELSE IF Has(opt, "refUndefined") THEN Failed(s, "$ref undefined")
  ELSE IF derived /\ Has(opt, "bitSize") /\ opt.bitSize # 0
    THEN Failed(s, "$bitSize with $bitMask")
  ELSE CheckBits(s, opt, flags,
         IF "STRING" \in flags
           THEN (IF Has(opt, "length") THEN opt.length.n ELSE -1)
         ELSE IF Has(opt, "size") /\ opt.size # 0 THEN opt.size
         ELSE opt.type.size,
         IF derived THEN bitSizeOf(UShr(opt.bitMask, opt.bitShift))
         ELSE IF Has(opt, "bitSize") THEN opt.bitSize ELSE 0,
         IF s.members # <<>> THEN Last(s.members) ELSE [bitMask |-> 0])

\* Struct.$addMember(opt): opt is a member spec, or a member of the extended
\* struct (which carries $bitMask, $bitShift, $offset, $size, ... already):
\* [ok, s, err].
AddMember(s, opt) ==
  IF ~Has(opt, "name") \/ opt.name = "" THEN Failed(s, "no name")
  ELSE IF opt.name \in Own(s) THEN Failed(s, "already exists")
  ELSE IF ~Has(opt, "type") THEN Failed(s, "no $type")
  ELSE AddTyped(s, opt,
                updateFlags(opt.type.flags, IF Has(opt, "flags") THEN opt.flags ELSE {}))

RECURSIVE AddMembers(_, _)
\* $addMembers once the first member is added with result r.
AddMembersFrom(r, arr) == IF r.ok THEN AddMembers(r.s, Tail(arr)) ELSE r

\* Struct.$addMembers(arr): stops at the first member that throws.
AddMembers(s, arr) ==
  IF arr = <<>> THEN [ok |-> TRUE, s |-> s, err |-> ""]
  ELSE AddMembersFrom(AddMember(s, Head(arr)), arr)

\* The fields the constructor takes from opt, and the members it then adds.
InitOwn(r1, opt) ==
  IF ~r1.ok THEN r1
  ELSE LET name    == IF Has(opt, "name") THEN opt.name ELSE r1.s.name
           version == IF Has(opt, "version") THEN opt.version ELSE r1.s.version
       IN AddMembers([r1.s EXCEPT
                        !.name     = name,
                        !.version  = version,
                        !.verInfo  = IF Has(opt, "verInfo") THEN opt.verInfo ELSE @,
                        !.flags    = IF Has(opt, "flags") THEN updateFlags(@, opt.flags) ELSE @,
                        !.fullName = fullNameOf(name, version)],
                     IF Has(opt, "members") THEN opt.members ELSE <<>>)

\* new Struct(opt): opt.extend is a Struct or absent.
StructInit(opt) ==
  IF Has(opt, "extend")
  THEN InitOwn(AddMembers([Type("", 0, {"STRUCT"}) EXCEPT
                             !.name    = opt.extend.name,
                             !.flags   = updateFlags(@, opt.extend.flags),
                             !.verInfo = opt.extend.verInfo],
                          opt.extend.members),
               opt)
  ELSE InitOwn([ok |-> TRUE, s |-> Type("", 0, {"STRUCT"}), err |-> ""], opt)

-----------------------------------------------------------------------------
(* binlib.Context *)

\* new Context(): the built-in types under their names, and $binlib.
NewContext ==
  [n \in {BuiltInTypes[i].name : i \in 1..Len(BuiltInTypes)} \cup {"$binlib"} |->
     IF n = "$binlib" THEN Type("$binlib", 0, {})
     ELSE (CHOOSE t \in SeqToSet(BuiltInTypes) : t.name = n)]

getType(c, name) == IF name \in DOMAIN c THEN c[name] ELSE NoType

getStruct(c, name) ==
  IF name \in DOMAIN c /\ "STRUCT" \in c[name].flags THEN c[name] ELSE NoType

\* A context in which a definition replaces the entry of the same full name
\* (the registry C19 rules out).
RegisterReplacing(c, r) ==
  IF ~r.ok THEN [ok |-> FALSE, c |-> c, err |-> r.err]
  ELSE [ok |-> TRUE, c |-> (fullNameOf(r.s.name, r.s.version) :> r.s) @@ c, err |-> ""]

\* $define once the Struct is constructed with result r.
Register(c, r) ==
  LET name == fullNameOf(r.s.name, r.s.version)
  IN IF ~r.ok THEN [ok |-> FALSE, c |-> c, err |-> r.err]
     ELSE IF name \in DOMAIN c THEN [ok |-> FALSE, c |-> c, err |-> "already defined"]
     ELSE [ok |-> TRUE, c |-> (name :> r.s) @@ c, err |-> ""]

\* Context.$define(opt) for one struct spec: [ok, c, err].
Define(c, opt) == Register(c, StructInit(opt))

-----------------------------------------------------------------------------
(* The struct definitions the program registers at start-up, in order.      *)
(* Header .. StructVer$2 are those of the library's test (part_000 lines    *)
(* 396-504); the others add the member kinds that vbios.js uses: absolute   *)
(* offsets beneath an ISOLATE struct (vbios.js:3080), arrays counted by a   *)
(* field and arrays whose entry type follows a version field (vbios.js:932) *)
(* and Hex strings (vbios.js:778, Sig); Mid has both kinds of reference in  *)
(* a struct that is not isolated.  A type or struct is written by name and  *)
(* looked up in the context when the definition is made (ctx.Header).       *)

M(name, type) == [name |-> name, type |-> type]

Catalog == <<
  [name |-> "Header",
   members |-> << M("Size", "U16LE"), M("VersionMajor", "U8"), M("VersionMinor", "U8") >>],
  [name |-> "StructA", extend |-> "Header",
   members |-> << M("SomeField", "U32LE"), M("OtherField", "U8") >>],
  [name |-> "StructB",
   members |-> << M("Flag", "U32LE")    @@ [bitSize |-> 1],
                  M("TheRest", "U32LE") @@ [bitSize |-> 31],
                  M("X2Bits", "U32LE")  @@ [bitSize |-> 2],
                  M("Y30Bits", "U32LE") @@ [bitSize |-> 30] >>],
  [name |-> "StructC", flags |-> {"ISOLATE"},
   members |-> << M("Size", "U32LE"), M("StructB", "U16LE") @@ [ref |-> "StructB"] >>],
  [name |-> "StructD",
   members |-> << M("StructC", "U16LE") @@ [ref |-> "StructC"] >>],
  [name |-> "StructE",
   members |-> << M("FixedArray", "Array") @@ [ref |-> "U32LE", length |-> LenNum(10)] >>],
  [name |-> "StructF",
   members |-> << M("A", "U8"), M("Text", "Str") @@ [length |-> LenNum(8)],
                  M("B", "U32LE") >>],
  [name |-> "StructG",
   members |-> << M("StructF", "StructF") >>],
  [name |-> "StructVer", verInfo |-> <<"Version">>,
   members |-> << M("Version", "U8"), M("Something", "U32LE") >>],
  [extend |-> "StructVer", version |-> <<1>>,
   members |-> << M("FieldA", "U8"), M("FieldB", "U16LE") >>],
  [extend |-> "StructVer", version |-> <<2>>,
   members |-> << M("FieldA", "U32LE"), M("FieldB", "U8"), M("FieldC", "U8") >>],
  [name |-> "Leaf",
   members |-> << M("Val", "I8"),
                  M("Lo", "U8") @@ [bitSize |-> 3],
                  M("Hi", "U8") @@ [bitSize |-> 5] >>],
  [name |-> "Iso", flags |-> {"ISOLATE"},
   members |-> << M("Abs", "U8") @@ [ref |-> "Leaf", flags |-> {"ABSOLUTE_OFFSET"}],
                  M("Rel", "U8") @@ [ref |-> "Leaf", flags |-> {"RELATIVE_OFFSET"}] >>],
  [name |-> "Top",
   members |-> << M("Count", "U8"),
                  M("Iso", "U8") @@ [ref |-> "Iso", flags |-> {"ABSOLUTE_OFFSET"}],
                  M("Items", "Array") @@ [ref |-> "U8", length |-> LenField("Count")],
                  M("Tail", "U8") >>],
  [name |-> "Entry", verInfo |-> <<"Id">>,
   members |-> << M("Id", "U8") >>],
  [extend |-> "Entry", version |-> <<1>>,
   members |-> << M("X", "U8") >>],
  [extend |-> "Entry", version |-> <<2>>,
   members |-> << M("Tag", "Hex") @@ [length |-> LenNum(1)] >>],
  [name |-> "Holder",
   members |-> << M("Ver", "U8"), M("Num", "U8"),
                  M("Entries", "Array") @@
                    [ref |-> "Entry", length |-> LenField("Num"), version |-> "Ver"] >>],
  [name |-> "Wrap",
   members |-> << M("Pad", "U8"), M("Inner", "Entry") >>],
  [name |-> "Mid",
   members |-> << M("Abs", "U8") @@ [ref |-> "Leaf", flags |-> {"ABSOLUTE_OFFSET"}],
                  M("Rel", "U8") @@ [ref |-> "Leaf", flags |-> {"RELATIVE_OFFSET"}] >>],
  [name |-> "Outer",
   members |-> << M("Mid", "U8") @@ [ref |-> "Mid"] >>],
  [name |-> "Bits16",
   members |-> << M("A", "U16LE") @@ [bitSize |-> 5],
                  M("B", "U16LE") @@ [bitSize |-> 7],
                  M("C", "U16LE") @@ [bitSize |-> 4],
                  M("D", "U16LE") @@ [bitSize |-> 9],
                  M("E", "U16LE") @@ [bitSize |-> 7],
                  M("F", "U8")    @@ [bitSize |-> 8],
                  M("G", "U8") >>],
  [name |-> "Sig",
   members |-> << M("Kind", "U8"), M("Tag", "Hex") @@ [length |-> LenNum(2)] >>],
  [name |-> "Pack",
   members |-> << M("Inner", "Entry"), M("After", "U8") >>],
  [name |-> "Seq",
   members |-> << M("First", "U8") @@ [ref |-> "Iso", flags |-> {"ABSOLUTE_OFFSET"}],
                  M("Second", "U8") @@ [ref |-> "Leaf", flags |-> {"ABSOLUTE_OFFSET"}],
                  M("Plain", "U8") >>],
  [name |-> "Hole",
   members |-> << M("A", "U8") @@ [bitSize |-> 3], M("B", "U8") >>],
  [name |-> "NoLen",
   members |-> << M("A", "U16LE"), M("S", "Str"), M("B", "U8") >>],
  [name |-> "NoLenArr",
   members |-> << M("A", "U32LE"), M("V", "Array") @@ [ref |-> "U16LE"], M("B", "U8") >>],
  \* definitions with a member that $addMember refuses
  [name |-> "NoName",
   members |-> << M("A", "U8"), [type |-> "U8"] >>],
  [name |-> "Twice",
   members |-> << M("A", "U8"), M("B", "U16LE"), M("A", "U32LE") >>],
  [name |-> "TwiceBase", extend |-> "Header",
   members |-> << M("Extra", "U8"), M("Size", "U8") >>],
  [name |-> "NoTypeGiven",
   members |-> << M("A", "U8"), [name |-> "B"] >>],
  [name |-> "ZeroBits",
   members |-> << M("A", "U8") @@ [bitSize |-> 0] >>],
  [name |-> "NegBits",
   members |-> << M("A", "U16LE") @@ [bitSize |-> -1] >>],
  [name |-> "WideBits",
   members |-> << M("A", "U8") @@ [bitSize |-> 9] >>],
  [name |-> "StrBits",
   members |-> << M("A", "Str") @@ [length |-> LenNum(4), bitSize |-> 3] >>],
  [name |-> "ArrBits",
   members |-> << M("A", "Array") @@ [ref |-> "U8", length |-> LenNum(2), bitSize |-> 3] >>],
  [name |-> "StructBits",
   members |-> << M("A", "Header") @@ [bitSize |-> 3] >>],
  \* definitions under a full name the context already has
  [name |-> "Header",
   members |-> << M("Other", "U8") >>],
  [extend |-> "StructVer", version |-> <<1>>,
   members |-> << M("FieldZ", "U8") >>],
  [name |-> "U8",
   members |-> << M("A", "U8") >>]
>>

\* The member spec with its type and $ref looked up in the context; a name
\* the context does not have evaluates to undefined.
ResolveMember(c, ms) ==
  LET rest == [k \in DOMAIN ms \ {"type", "ref"} |-> ms[k]]
      t    == IF Has(ms, "type") /\ ms.type \in DOMAIN c
              THEN [type |-> c[ms.type]] ELSE <<>>
      r    == IF ~Has(ms, "ref") THEN <<>>
              ELSE IF ms.ref \in DOMAIN c THEN [ref |-> c[ms.ref]]
              ELSE [refUndefined |-> TRUE]
  IN rest @@ t @@ r

ResolveSpec(c, spec) ==
  LET rest == [k \in DOMAIN spec \ {"extend", "members"} |-> spec[k]]
      e    == IF Has(spec, "extend") /\ spec.extend \in DOMAIN c
              THEN [extend |-> c[spec.extend]] ELSE <<>>
      m    == IF Has(spec, "members")
              THEN [members |->
                      [i \in 1..Len(spec.members) |-> ResolveMember(c, spec.members[i])]]
              ELSE <<>>
  IN rest @@ e @@ m

-----------------------------------------------------------------------------
(* binlib.DataIO: primitive and string values in a DataView *)

Infinity == 1000000

\* A DataView access of n bytes at offset throws a RangeError outside the view.
InView(buf, offset, n) == offset >= 0 /\ offset + n <= Len(buf)

getUint8(buf, offset) == buf[offset + 1]
getInt8(buf, offset)  == IF buf[offset + 1] >= 128 THEN buf[offset + 1] - 256
                         ELSE buf[offset + 1]

\* The bytes of a `size`-byte integer at offset, least significant first.
BytesLE(buf, offset, size, flags) ==
  IF "BIG_ENDIAN" \in flags
  THEN [i \in 0..size - 1 |-> getUint8(buf, offset + size - 1 - i)]
  ELSE [i \in 0..size - 1 |-> getUint8(buf, offset + i)]

RECURSIVE SumBytes(_, _, _)
SumBytes(b, i, size) ==
  IF i >= size THEN 0 ELSE b[i] * (256^i) + SumBytes(b, i + 1, size)

\* The sizes and flag combinations readPrimitiveValue / writePrimitiveValue
\* handle: 1 byte without endianness, 1..4 bytes with it (floats are left out).
PrimitiveHandled(size, flags) ==
  LET f == flags \cap FLAGS_PRIMITIVE_ALL
  IN \/ /\ f \in {{"PRIMITIVE", "SIGNED"}, {"PRIMITIVE", "UNSIGNED"}}
        /\ size = 1
     \/ /\ f \in {{"PRIMITIVE", e, g} : e \in ENDIAN, g \in SIGN}
        /\ size \in 1..4

\* An unsigned 4-byte value with the top bit set is a number >= 2^31.
IsWide(buf, offset, size, flags) ==
  /\ size = 4
  /\ "UNSIGNED" \in flags
  /\ InView(buf, offset, size)
  /\ BytesLE(buf, offset, size, flags)[3] >= 128

\* readPrimitiveValue(buffer, offset, size, flags): [st, v]; st is "throw" for
\* an unhandled type or a read outside the view.
readPrimitiveValue(buf, offset, size, flags) ==
  IF ~PrimitiveHandled(size, flags) \/ ~InView(buf, offset, size)
    THEN [st |-> "throw", v |-> 0]
  ELSE IF IsWide(buf, offset, size, flags) THEN [st |-> "wide", v |-> 0]
  ELSE LET b   == BytesLE(buf, offset, size, flags)
           top == IF "SIGNED" \in flags /\ b[size - 1] >= 128
                  THEN b[size - 1] - 256 ELSE b[size - 1]
       IN [st |-> "ok",
           v  |-> SumBytes(b, 0, size - 1) + top * (256^(size - 1))]

\* The int32 of the value readPrimitiveValue returns (value | 0), which is all
\* the bit-field code uses of it; defined for every 4-byte value.
readPrimitiveInt32(buf, offset, size, flags) ==
  IF PrimitiveHandled(size, flags) /\ IsWide(buf, offset, size, flags)
  THEN LET b == BytesLE(buf, offset, size, flags)
       IN [st |-> "ok", v |-> SumBytes(b, 0, 3) + (b[3] - 256) * (256^3)]
  ELSE readPrimitiveValue(buf, offset, size, flags)

hexToAscii(x) == x + (IF x <= 9 THEN 48 ELSE 65)

RECURSIVE TrimNul(_)
TrimNul(str) ==
  IF str # <<>> /\ Last(str) = 0 THEN TrimNul(SubSeq(str, 1, Len(str) - 1)) ELSE str

\* A decode that ends the string at the first NUL byte of the field (the
\* decode C15 rules out).
readStringValueToFirstNul(buf, offset, size, flags) ==
  IF size > 0 /\ ~InView(buf, offset, size)
    THEN [st |-> "throw", has |-> FALSE, v |-> <<>>]
  ELSE LET n    == IF size > 0 THEN size ELSE 0
           nuls == {i \in 1..n : getUint8(buf, offset + i - 1) = 0}
           len  == IF nuls = {} THEN n
                   ELSE (CHOOSE i \in nuls : \A j \in nuls : i <= j) - 1
       IN [st |-> "ok", has |-> "HEX" \notin flags,
           v  |-> [i \in 1..len |-> getUint8(buf, offset + i - 1)]]

\* readStringValue(buffer, offset, size, flags): [st, has, v]; has = FALSE is
\* the return value undefined (the "hex" branch builds str and returns nothing).
readStringValue(buf, offset, size, flags) ==
  IF size > 0 /\ ~InView(buf, offset, size)
    THEN [st |-> "throw", has |-> FALSE, v |-> <<>>]
  ELSE IF "HEX" \in flags THEN [st |-> "ok", has |-> FALSE, v |-> <<>>]
  ELSE [st |-> "ok", has |-> TRUE,
        v  |-> TrimNul([i \in 1..(IF size > 0 THEN size ELSE 0) |->
                          getUint8(buf, offset + i - 1)])]

-----------------------------------------------------------------------------
(* Objects *)

VNum(n)  == [k |-> "num",  v |-> n]
VStr(s)  == [k |-> "str",  v |-> s]
VNull    == [k |-> "null", v |-> 0]
VObj(o)  == [k |-> "obj",  v |-> o]
VArr(a)  == [k |-> "arr",  v |-> a]

newObject(type, rawOffset, absOffset) ==
  [meta |-> [type |-> type, rawOffset |-> rawOffset, absOffset |-> absOffset],
   f    |-> <<>>]

HasField(obj, name) == name \in DOMAIN obj.f

SetField(obj, name, value) ==
  [obj EXCEPT !.f = [n \in DOMAIN obj.f \cup {name} |->
                       IF n = name THEN value ELSE obj.f[n]]]

\* object[name] || 0, as the count of an array.
CountOf(obj, name) ==
  IF HasField(obj, name) /\ obj.f[name].k = "num" THEN obj.f[name].v ELSE 0

\* String(object[name])
StringOf(obj, name) ==
  IF ~HasField(obj, name) THEN "undefined"
  ELSE IF obj.f[name].k = "num" THEN ToString(obj.f[name].v)
  ELSE IF obj.f[name].k = "null" THEN "null"
  ELSE "[object]"

RECURSIVE VerSuffix(_, _, _)
VerSuffix(obj, verInfo, i) ==
  IF i > Len(verInfo) THEN ""
  ELSE (IF i = 1 THEN "$" ELSE ".") \o StringOf(obj, verInfo[i])
         \o VerSuffix(obj, verInfo, i + 1)

fullNameFromPartialObject(obj, type) == type.name \o VerSuffix(obj, type.verInfo, 1)

nestPath(path, name) == IF path # "" THEN path \o "." \o name ELSE name

-----------------------------------------------------------------------------
(* binlib.DataReader *)
(* E  = [c, buf, maxDepth, reject]: context, DataView, options (the filter  *)
(*      rejects the paths in reject).                                       *)
(* R  = [absFrom, offset, path, start, end, depth, log, st]: the reader's   *)
(*      fields and the outcome so far: "ok", "throw" (an exception unwinds  *)
(*      the call) or "wide".  The window end is stored by the constructor   *)
(*      and read by no traversal code.                                      *)

\* A base of absolute offsets that an isolated struct does not move (the
\* resolution C8 rules out).
IsolateBaseKept(type, absFrom, absOffset) == absFrom

\* The base of absolute offsets once readObject has entered `type`.
IsolateBase(type, absFrom, absOffset) ==
  IF "ISOLATE" \in type.flags THEN absOffset ELSE absFrom

\* A target computed from the struct's own offset whatever the kind of the
\* reference (the resolution C9 rules out).
RefTargetRelative(member, absFrom, offset, value) == offset + value

\* The absolute offset a reference member with value `value` points to.
RefTarget(member, absFrom, offset, value) ==
  IF "ABSOLUTE_OFFSET" \in member.flags THEN absFrom + value ELSE offset + value

\* The value of a bit-field member in the word `value`.
ExtractBits(member, value) ==
  LET shl == clz32(member.bitMask)
      shr == shl + member.bitShift
  IN IF "SIGNED" \in member.flags THEN Sar(Shl(value, shl), shr)
     ELSE UShr(Shl(value, shl), shr)

\* The type readObject goes on with once every member of `type` is read.
VariantOf(c, type, obj) ==
  IF type.version = <<>> /\ type.verInfo # <<>>
  THEN getStruct(c, fullNameFromPartialObject(obj, type))
  ELSE NoType

RECURSIVE ReadLoop(_, _, _, _, _)
RECURSIVE ReadMember(_, _, _, _, _)
RECURSIVE ReadNested(_, _, _, _, _, _, _)
RECURSIVE ReadElems(_, _, _, _, _, _, _, _)

\* DataReader.readObject(type, object): [R, obj].
ReadObject(E, R, type, obj) ==
  IF type.members = <<>>
  THEN [R   |-> [R EXCEPT !.offset = obj.meta.absOffset + type.size,
                          !.absFrom = IsolateBase(type, @, obj.meta.absOffset)],
        obj |-> obj]
  ELSE ReadLoop(E, [R EXCEPT !.offset = obj.meta.absOffset,
                             !.absFrom = IsolateBase(type, @, obj.meta.absOffset)],
                type, obj, 1)

\* The end of readObject: the cursor is left after the object.
ReadDone(R, type, obj) ==
  [R |-> [R EXCEPT !.offset = obj.meta.absOffset + type.size], obj |-> obj]

\* A recheck that fails the decode when the variant is not registered (the
\* handling C22 rules out).
DispatchStrict(E, R, type, obj, i, updatedType) ==
  IF updatedType = NoType THEN [R |-> [R EXCEPT !.st = "throw"], obj |-> obj]
  ELSE IF i + 1 <= Len(updatedType.members)
    THEN ReadLoop(E, R, updatedType, [obj EXCEPT !.meta.type = updatedType], i + 1)
  ELSE ReadDone(R, updatedType, [obj EXCEPT !.meta.type = updatedType])

\* The recheck of the version once the last member of `type` is read:
\* updatedType is the variant looked up (NoType if it is not registered).
Dispatch(E, R, type, obj, i, updatedType) ==
  IF updatedType = NoType
    THEN ReadDone([R EXCEPT !.log = Append(@, "no versioned type")], type, obj)
  ELSE IF i + 1 <= Len(updatedType.members)
    THEN ReadLoop(E, R, updatedType, [obj EXCEPT !.meta.type = updatedType], i + 1)
  ELSE ReadDone(R, updatedType, [obj EXCEPT !.meta.type = updatedType])

\* A loop that rechecks the version of every type with $verInfo, a variant
\* included (the second dispatch C26 rules out).
AfterMemberRedispatch(E, R, type, obj, i) ==
  IF R.st # "ok" THEN [R |-> R, obj |-> obj]
  ELSE IF i + 1 <= Len(type.members) THEN ReadLoop(E, R, type, obj, i + 1)
  ELSE IF type.verInfo # <<>>
    THEN Dispatch(E, R, type, obj, i,
                  getStruct(E.c, fullNameFromPartialObject(obj, type)))
  ELSE ReadDone(R, type, obj)

\* The loop of readObject after member i (1-based) is read and stored.
AfterMember(E, R, type, obj, i) ==
  IF R.st # "ok" THEN [R |-> R, obj |-> obj]
  ELSE IF i + 1 <= Len(type.members) THEN ReadLoop(E, R, type, obj, i + 1)
  ELSE IF type.version = <<>> /\ type.verInfo # <<>>
    THEN Dispatch(E, R, type, obj, i, VariantOf(E.c, type, obj))
  ELSE ReadDone(R, type, obj)

\* object[member.$name] = value, unless the value r read is undefined.
StoreMember(E, type, obj, i, r) ==
  AfterMember(E, r.R, type,
              IF r.has THEN SetField(obj, type.members[i].name, r.v) ELSE obj, i)

\* The loop of readObject from member i (1-based) on.
ReadLoop(E, R, type, obj, i) ==
  StoreMember(E, type, obj, i, ReadMember(E, R, type, obj, type.members[i]))

\* A return of readNested that leaves path, offset and absFrom as the nested
\* decode left them (the cursor C27 rules out).
RestoredDepthOnly(R, r) ==
  IF r.R.st # "ok" THEN r
  ELSE [R |-> [r.R EXCEPT !.depth = @ - 1, !.start = R.start], obj |-> r.obj]

\* The return of readNested: the cursor of before the call is restored (an
\* exception leaves it).
Restored(R, r) ==
  IF r.R.st # "ok" THEN r
  ELSE [R   |-> [r.R EXCEPT !.depth = @ - 1, !.path = R.path, !.start = R.start,
                            !.offset = R.offset, !.absFrom = R.absFrom],
        obj |-> r.obj]

\* DataReader.readNested(type, path, start, rawOffset, absOffset): [R, obj].
ReadNested(E, R, type, path, start, rawOffset, absOffset) ==
  Restored(R, ReadObject(E, [R EXCEPT !.path = path, !.start = start,
                                      !.offset = absOffset, !.depth = @ + 1],
                         type, newObject(type, rawOffset, absOffset)))

\* One entry of an array read with result p (a primitive) or n (a struct).
ElemPrimitive(E, R, name, ref, count, j, subOffset, acc, p) ==
  IF p.st # "ok" THEN [R |-> [R EXCEPT !.st = p.st], v |-> acc]
  ELSE ReadElems(E, R, name, ref, count, j + 1, subOffset + ref.size,
                 Append(acc, VNum(p.v)))

ElemStruct(E, name, ref, count, j, subOffset, acc, n) ==
  IF n.R.st # "ok" THEN [R |-> n.R, v |-> acc]
  ELSE ReadElems(E, n.R, name, ref, count, j + 1, subOffset + ref.size,
                 Append(acc, VObj(n.obj)))

\* The loop over the entries of an array member from entry j (0-based) on:
\* [R, v] with v the entries read.
ReadElems(E, R, name, ref, count, j, subOffset, acc) ==
  IF j >= count THEN [R |-> R, v |-> acc]
  ELSE IF ref = NoType THEN [R |-> [R EXCEPT !.st = "throw"], v |-> acc]
  ELSE IF "PRIMITIVE" \in ref.flags
    THEN ElemPrimitive(E, R, name, ref, count, j, subOffset, acc,
                       readPrimitiveValue(E.buf, subOffset, ref.size, ref.flags))
  ELSE ElemStruct(E, name, ref, count, j, subOffset, acc,
                  ReadNested(E, R, ref,
                             nestPath(R.path, name \o "[" \o ToString(j) \o "]"),
                             R.start, -1, subOffset))

\* The value of a member that is a nested object read with result n, or an
\* array read with result a.
NestedValue(n) == [R |-> n.R, has |-> TRUE, v |-> VObj(n.obj)]

ArrayValue(a) == [R |-> a.R, has |-> TRUE, v |-> VArr(a.v)]

MemberFailed(R, st) == [R |-> [R EXCEPT !.st = st], has |-> FALSE, v |-> VNull]

\* A reference member for which the raw value 0 is an offset like any other
\* (the decoding C10 rules out).
ReadReferenceOfZero(E, R, member, value, absOffset, path) ==
  [R |-> R, has |-> TRUE, v |-> VObj(newObject(member.ref, value, absOffset))]

\* A reader that follows every reference whatever the depth and the filter
\* (the traversal C11 rules out).
StopsAtNever(E, R, path) == FALSE

\* The reader does not follow the reference at `path`: the depth limit is
\* reached or the filter returns false for the path.
StopsAt(E, R, path) == R.depth >= E.maxDepth \/ path \in E.reject

\* readMember for a reference member whose raw value is `value`.
ReadReference(E, R, member, value, absOffset, path) ==
  IF value = 0 THEN [R |-> R, has |-> TRUE, v |-> VNull]
  ELSE IF StopsAt(E, R, path)
    THEN [R |-> R, has |-> TRUE, v |-> VObj(newObject(member.ref, value, absOffset))]
  ELSE NestedValue(ReadNested(E, R, member.ref, path, R.start, value, absOffset))

\* readMember for a primitive member whose word, once read, has value `value`.
ReadPrimitive(E, R, member, value) ==
  IF member.ref = NoType THEN [R |-> R, has |-> TRUE, v |-> VNum(value)]
  ELSE ReadReference(E, R, member, value,
                     RefTarget(member, R.absFrom, R.offset, value),
                     nestPath(R.path, member.name))

\* readMember for a primitive member read with result p.
ReadWord(E, R, member, p) ==
  IF p.st # "ok" THEN MemberFailed(R, p.st)
  ELSE ReadPrimitive(E, R, member,
                     IF member.bitMask # 0 THEN ExtractBits(member, p.v) ELSE p.v)

\* readMember for a string member read with result q.
ReadString(R, q) ==
  IF q.st # "ok" THEN MemberFailed(R, q.st)
  ELSE [R |-> R, has |-> q.has, v |-> VStr(q.v)]

\* readMember for an array member of `count` entries of type ref (NoType if
\* the versioned entry type is not registered).
ReadArray(E, R, member, count, ref) ==
  IF member.version # "" /\ ref = NoType
    THEN [R |-> [R EXCEPT !.log = Append(@, "no versioned array entry type")],
          has |-> FALSE, v |-> VNull]
  ELSE ArrayValue(ReadElems(E, R, member.name, ref, count, 0,
                            R.offset + member.offset, <<>>))

\* DataReader.readMember(type, object, member): [R, has, v]; has = FALSE is
\* the return value undefined.
ReadMember(E, R, type, obj, member) ==
  IF "PRIMITIVE" \in member.flags THEN
    ReadWord(E, R, member,
             IF member.bitMask # 0
             THEN readPrimitiveInt32(E.buf, R.offset + member.offset, member.size,
                                     member.flags)
             ELSE readPrimitiveValue(E.buf, R.offset + member.offset, member.size,
                                     member.flags))
  ELSE IF "STRING" \in member.flags THEN
    ReadString(R, readStringValue(E.buf, R.offset + member.offset, member.size,
                                  member.flags))
  ELSE IF "ARRAY" \in member.flags THEN
    IF member.version # "" /\ member.ref = NoType THEN MemberFailed(R, "throw")
    ELSE ReadArray(E, R, member,
                   IF member.length.k = "number" THEN member.length.n
                   ELSE CountOf(obj, member.length.s),
                   IF member.version # ""
                   THEN getType(E.c, member.ref.name \o "$" \o StringOf(obj, member.version))
                   ELSE member.ref)
  ELSE IF "STRUCT" \in member.flags THEN
    NestedValue(ReadNested(E, R, member.type, nestPath(R.path, member.name),
                           R.start, -1, R.offset + member.offset))
  ELSE MemberFailed(R, "throw")

\* new DataReader(context, opt).readRoot(type), opt = {buffer, type, start, end,
\* maxDepth, filter}: [R, obj].
readRoot(c, buf, type, start, end, maxDepth, reject) ==
  LET E == [c |-> c, buf |-> buf, maxDepth |-> maxDepth, reject |-> reject]
      R == [absFrom |-> start, offset |-> start, path |-> "", start |-> start,
            end |-> end, depth |-> 0, log |-> <<>>, st |-> "ok"]
  IN IF "STRUCT" \notin type.flags
     THEN [R |-> [R EXCEPT !.st = "throw"], obj |-> newObject(type, -1, start)]
     ELSE ReadObject(E, R, type, newObject(type, -1, start))

-----------------------------------------------------------------------------
(* binlib.DataIO: writes *)

\* DataView.setUint8(offset, value)
setUint8(buf, offset, value) == [buf EXCEPT ![offset + 1] = value % 256]

RECURSIVE SetBytes(_, _, _, _)
\* setUint8 of the bytes b[i], b[i+1], ... (a sequence) at offset, offset+1, ...
\* in this order, up to the first one outside the view: [st, buf, n] with n
\* the number of bytes written.
SetBytes(buf, offset, b, i) ==
  IF i > Len(b) THEN [st |-> "ok", buf |-> buf, n |-> i - 1]
  ELSE IF ~InView(buf, offset + i - 1, 1) THEN [st |-> "throw", buf |-> buf, n |-> i - 1]
  ELSE SetBytes(setUint8(buf, offset + i - 1, b[i]), offset, b, i + 1)

\* Byte i (0 = least significant) of the two's complement form of value.
ByteOf(value, i) == (value \div (256^i)) % 256

\* writePrimitiveValue(buffer, offset, size, flags, value): [st, buf, n].
\* setUint16 / setUint32 write all their bytes or throw; the 3-byte case is
\* three setUint8 calls.
writePrimitiveValue(buf, offset, size, flags, value) ==
  LET mem == IF "BIG_ENDIAN" \in flags
             THEN [i \in 1..size |-> ByteOf(value, size - i)]
             ELSE [i \in 1..size |-> ByteOf(value, i - 1)]
  IN IF ~PrimitiveHandled(size, flags) THEN [st |-> "throw", buf |-> buf, n |-> 0]
     ELSE IF size # 3 /\ ~InView(buf, offset, size)
       THEN [st |-> "throw", buf |-> buf, n |-> 0]
     ELSE SetBytes(buf, offset, mem, 1)

\* asciiToHex(x): -1 stands for the TypeError.
asciiToHex(x) ==
  IF x >= 48 /\ x <= 57 THEN x - 48
  ELSE IF x >= 65 /\ x <= 90 THEN x - 55
  ELSE IF x >= 97 /\ x <= 122 THEN x - 87
  ELSE -1

Min(a, b) == IF a < b THEN a ELSE b

\* The bytes writeStringValue sets, in order, for a string of char codes; for
\* "hex" a bad digit ends the sequence with -1 (the TypeError).
StringBytes(size, flags, value) ==
  LET n == IF size > 0 THEN size ELSE 0
  IN IF "HEX" \in flags
     THEN LET nBytes == Min(Len(value) * 2, size) \div 2
              digit(j) == IF j <= Len(value) THEN asciiToHex(value[j]) ELSE -1
          IN [i \in 1..n |->
                IF i > nBytes THEN 0
                ELSE IF digit(2 * i - 1) < 0 \/ digit(2 * i) < 0 THEN -1
                ELSE ((digit(2 * i - 1) * 16) % 256) + digit(2 * i)]
     ELSE LET nBytes == Min(Len(value), size)
          IN [i \in 1..n |-> IF i <= nBytes THEN value[i] ELSE 0]

RECURSIVE UpTo(_, _)
\* The prefix of b before its first -1.
UpTo(b, i) ==
  IF i > Len(b) \/ b[i] < 0 THEN SubSeq(b, 1, i - 1) ELSE UpTo(b, i + 1)

\* writeStringValue(buffer, offset, size, flags, value): [st, buf, n].
writeStringValue(buf, offset, size, flags, value) ==
  LET b    == StringBytes(size, flags, value)
      good == UpTo(b, 1)
      w    == SetBytes(buf, offset, good, 1)
  IN IF w.st = "ok" /\ Len(good) < Len(b) THEN [w EXCEPT !.st = "throw"] ELSE w

-----------------------------------------------------------------------------
(* binlib.DataUpdater *)
(* W = [buf, offset, absFrom, path, log, st, trace]: the updater's fields,  *)
(*     the outcome so far and the trace of what it did: one event per       *)
(*     object entered ("obj") and per value written ("prim", "bits", "str") *)
(*     with the offset, the number of bytes set, and for a bit-field the    *)
(*     bytes of its word before and after.                                  *)

Event(k, path, off, n) ==
  [k |-> k, path |-> path, off |-> off, n |-> n, val |-> 0,
   mask |-> 0, shift |-> 0, flags |-> {}, before |-> <<>>, after |-> <<>>]

BytesAt(buf, off, n) ==
  [i \in 1..n |-> IF InView(buf, off + i - 1, 1) THEN buf[off + i] ELSE -1]

\* A bit-field write that drops the other bits of the word (the write C4
\* rules out).
MergeBitsAlone(member, value, word) ==
  BitAnd(Shl(value, member.bitShift), member.bitMask)

\* The word a bit-field member writes: its value merged into the word read.
MergeBits(member, value, word) ==
  BitOr(BitAnd(Shl(value, member.bitShift), member.bitMask),
        BitAnd(word, BitNot(member.bitMask)))

\* The number a primitive member writes for the field value v.
NumOf(v) == IF v.k = "num" THEN v.v ELSE 0

\* The offset at which the updater writes the object a reference member with
\* raw value `value` points to.
NestedOffset(member, absFrom, offset, value) ==
  IF "ABSOLUTE_OFFSET" \in member.flags THEN absFrom + value ELSE offset + value

\* The type the updater uses for the entries of an array member.
ArrayEntryType(member) == member.ref

\* The type the updater uses for the object of an inline struct member.
InlineType(member, nestedObject) == member.type

RECURSIVE UpdateLoop(_, _, _, _)
RECURSIVE UpdateMember(_, _, _)
RECURSIVE UpdateNested(_, _, _, _, _)
RECURSIVE UpdateElems(_, _, _, _, _, _)

\* DataUpdater.updateObject(object, type)
UpdateObject(W, obj, type) == UpdateLoop(W, obj, type, 1)

UpdateLoop(W, obj, type, i) ==
  IF W.st # "ok" \/ i > Len(type.members) THEN W
  ELSE UpdateLoop(UpdateMember(W, obj, type.members[i]), obj, type, i + 1)

\* DataUpdater.updateNested(obj, type, path, offset)
UpdateNested(W, obj, type, path, offset) ==
  LET W1 == [W EXCEPT !.path = nestPath(W.path, path), !.offset = offset,
                      !.trace = Append(@, Event("obj", nestPath(W.path, path), offset, 0))]
      W2 == UpdateObject(W1, obj, type)
  IN IF W2.st # "ok" THEN W2
     ELSE [W2 EXCEPT !.path = W.path, !.offset = W.offset, !.absFrom = W.absFrom]

\* The loop over the entries of an array member from entry j (0-based) on.
UpdateElems(W, member, ref, array, j, subOffset) ==
  IF W.st # "ok" \/ j >= Len(array) THEN W
  ELSE IF ref = NoType THEN [W EXCEPT !.st = "throw"]
  ELSE IF "PRIMITIVE" \in ref.flags
  THEN LET w == writePrimitiveValue(W.buf, subOffset, ref.size, ref.flags,
                                    NumOf(array[j + 1]))
           path == nestPath(W.path, member.name \o "[" \o ToString(j) \o "]")
       IN UpdateElems([W EXCEPT !.buf = w.buf, !.st = w.st,
                                !.trace = Append(@, [Event("prim", path, subOffset, w.n)
                                                       EXCEPT !.val = NumOf(array[j + 1])])],
                      member, ref, array, j + 1, subOffset + ref.size)
  ELSE IF array[j + 1].k # "obj" THEN [W EXCEPT !.st = "throw"]
  ELSE UpdateElems(UpdateNested(W, array[j + 1].v, ref,
                                member.name \o "[" \o ToString(j) \o "]", subOffset),
                   member, ref, array, j + 1, subOffset + ref.size)

\* The body of the loop of updateObject for one member.
UpdateMember(W, obj, member) ==
  IF ~HasField(obj, member.name) THEN W
  ELSE
  LET k      == member.name
      size   == member.size
      flags  == member.flags
      offset == W.offset + member.offset
      value  == obj.f[k]
      path   == nestPath(W.path, k)
  IN
  IF "PRIMITIVE" \in flags THEN
    LET isRef == member.ref # NoType
        num   == IF isRef
                 THEN (IF value.k = "obj" THEN value.v.meta.rawOffset ELSE 0)
                 ELSE NumOf(value)
        old   == readPrimitiveInt32(W.buf, offset, size, flags)
        prim  == IF member.bitMask # 0 THEN MergeBits(member, num, old.v) ELSE num
        w     == writePrimitiveValue(W.buf, offset, size, flags, prim)
        ev    == [Event(IF member.bitMask # 0 THEN "bits" ELSE "prim", path, offset, w.n)
                    EXCEPT !.val = num, !.mask = member.bitMask,
                           !.shift = member.bitShift, !.flags = flags,
                           !.before = BytesAt(W.buf, offset, size),
                           !.after = BytesAt(w.buf, offset, size)]
        W1    == [W EXCEPT !.buf = w.buf, !.st = w.st, !.trace = Append(@, ev)]
    IN IF isRef /\ value.k \notin {"obj", "null"} THEN [W EXCEPT !.st = "throw"]
       ELSE IF member.bitMask # 0 /\ old.st # "ok" THEN [W EXCEPT !.st = "throw"]
       ELSE IF w.st # "ok" THEN W1
       ELSE IF isRef /\ value.k = "obj"
         THEN IF value.v.meta.type # NoType
              THEN UpdateNested(W1, value.v, value.v.meta.type, k,
                                NestedOffset(member, W.absFrom, W.offset, num))
              ELSE [W1 EXCEPT !.log = Append(@, "struct not found")]
       ELSE W1
  ELSE IF "STRING" \in flags THEN
    LET w == writeStringValue(W.buf, offset, size, flags,
                              IF value.k = "str" THEN value.v ELSE <<>>)
    IN [W EXCEPT !.buf = w.buf, !.st = w.st,
                 !.trace = Append(@, Event("str", path, offset, w.n))]
  ELSE IF "ARRAY" \in flags THEN
    LET ref   == ArrayEntryType(member)
        count == IF member.length.k = "number" THEN member.length.n
                 ELSE CountOf(obj, member.length.s)
    IN IF value.k # "arr" THEN [W EXCEPT !.log = Append(@, "should be array")]
       \* the message of the mismatch names an undeclared variable
       \* (numStoredEntries): building it throws a ReferenceError
       ELSE IF Len(value.v) # count THEN [W EXCEPT !.st = "throw"]
       ELSE UpdateElems(W, member, ref, value.v, 0, offset)
  ELSE IF "STRUCT" \in flags THEN
    IF value.k # "obj" THEN [W EXCEPT !.st = "throw"]
    ELSE UpdateNested(W, value.v, InlineType(member, value.v), k, offset)
  ELSE [W EXCEPT !.log = Append(@, "unhandled")]

\* new DataUpdater(context, opt).updateRoot(opt.object), opt = {buffer, object,
\* start}: the final W.
updateRoot(buf, root, start) ==
  LET W == [buf |-> buf, offset |-> start, absFrom |-> start, path |-> "",
            log |-> <<>>, st |-> "ok",
            trace |-> <<Event("obj", "", start, 0)>>]
  IN IF root.meta.type = NoType THEN [W EXCEPT !.st = "throw"]
     ELSE UpdateObject(W, root, root.meta.type)

-----------------------------------------------------------------------------
(* The caller's view of a decoded graph: positions and assignments.         *)
(* A position is a sequence of steps [f, i]: member f of the object (i = -1)*)
(* or entry i (0-based) of its array member f.                              *)

Step(f, i) == [f |-> f, i |-> i]

RECURSIVE ObjPaths(_)
\* Every position of the graph below the object o.
ObjPaths(o) ==
  UNION { LET v == o.f[n] IN
          {<<Step(n, -1)>>}
            \cup (IF v.k = "obj"
                  THEN {<<Step(n, -1)>> \o q : q \in ObjPaths(v.v)} ELSE {})
            \cup (IF v.k = "arr"
                  THEN UNION { {<<Step(n, j - 1)>>}
                                 \cup (IF v.v[j].k = "obj"
                                       THEN {<<Step(n, j - 1)>> \o q : q \in ObjPaths(v.v[j].v)}
                                       ELSE {})
                               : j \in 1..Len(v.v) }
                  ELSE {})
        : n \in DOMAIN o.f }

\* The value one step below the object o.
StepValue(o, st) == IF st.i < 0 THEN o.f[st.f] ELSE o.f[st.f].v[st.i + 1]

RECURSIVE Get(_, _)
\* object.a.b[i].c: the value at a position (the object itself for <<>>).
Get(o, path) ==
  IF path = <<>> THEN VObj(o)
  ELSE IF Len(path) = 1 THEN StepValue(o, path[1])
  ELSE Get(StepValue(o, path[1]).v, Tail(path))

RECURSIVE Put(_, _, _)
\* object.a.b[i].c = val
Put(o, path, val) ==
  LET st    == path[1]
      inner == IF Len(path) = 1 THEN val
               ELSE VObj(Put(StepValue(o, st).v, Tail(path), val))
  IN IF st.i < 0 THEN SetField(o, st.f, inner)
     ELSE SetField(o, st.f, VArr([o.f[st.f].v EXCEPT ![st.i + 1] = inner]))

RECURSIVE Remove(_, _)
\* delete object.a.b.c
Remove(o, path) ==
  LET st == path[1]
  IN IF Len(path) = 1
     THEN [o EXCEPT !.f = [n \in DOMAIN o.f \ {st.f} |-> o.f[n]]]
     ELSE Put(o, <<st>>, VObj(Remove(StepValue(o, st).v, Tail(path))))

\* The member named name of a type (NoMember if it declares none).
NoMember == [name |-> "", type |-> NoType, size |-> 0, flags |-> {}, bitMask |-> 0,
             bitShift |-> 0, offset |-> 0, ref |-> NoType, length |-> LenNum(-1),
             version |-> ""]

MemberOf(type, name) ==
  IF \E i \in 1..Len(type.members) : type.members[i].name = name
  THEN type.members[CHOOSE i \in 1..Len(type.members) : type.members[i].name = name]
  ELSE NoMember

-----------------------------------------------------------------------------
(* State machine *)

\* The number of positions of the graph the caller assigns to or deletes
\* between a read and an update.
MaxEdits == 1

\* The values the caller assigns to number fields.
EditValues == {0, 6, -3}

\* The strings the caller assigns to string fields, as character codes: "",
\* "Q", "AB12" and "ABCDEFGHI".
EditStrings == {<<>>, <<81>>, <<65, 66, 49, 50>>,
                <<65, 66, 67, 68, 69, 70, 71, 72, 73>>}

\* opt.start, opt.end, opt.maxDepth and opt.filter of a read; end = -1 is an
\* end that is not given (the length of the buffer), and the filter returns
\* false for the paths in reject.
ReadOptions == {[start |-> 0, end |-> -1, maxDepth |-> Infinity, reject |-> {}],
                [start |-> 2, end |-> -1, maxDepth |-> Infinity, reject |-> {}],
                [start |-> 0, end |-> -1, maxDepth |-> 0, reject |-> {}],
                [start |-> 0, end |-> -1, maxDepth |-> 1, reject |-> {}],
                [start |-> 0, end |-> -1, maxDepth |-> Infinity,
                 reject |-> {"StructC.StructB", "Mid.Abs", "Iso", "Second"}],
                [start |-> 0, end |-> 3, maxDepth |-> Infinity, reject |-> {}]}

\* The images the caller reads, each with the name of its root type.
Inputs == {
  [type |-> "Header",    image |-> <<16, 0, 1, 2>>],
  [type |-> "StructD",   image |-> <<4, 0, 0, 0, 16, 0, 0, 0, 8, 0, 0, 0,
                                     3, 0, 0, 0, 5, 0, 0, 0>>],
  [type |-> "StructG",   image |-> <<1, 72, 105, 0, 33, 0, 0, 0, 0, 7, 0, 0, 0>>],
  [type |-> "StructG",   image |-> <<1, 65, 110, 121, 116, 104, 105, 110, 103, 7, 0, 0, 0>>],
  [type |-> "Sig",       image |-> <<1, 171, 18>>],
  [type |-> "Pack",      image |-> <<5, 44>>],
  [type |-> "StructVer", image |-> <<1, 255, 0, 0, 0, 2, 3, 0>>],
  [type |-> "StructVer", image |-> <<2, 255, 0, 0, 0, 2, 0, 0, 0, 3, 4>>],
  [type |-> "StructVer", image |-> <<3, 255, 0, 0, 0>>],
  [type |-> "StructVer", image |-> <<1, 255, 0>>],
  [type |-> "StructVer$1", image |-> <<2, 255, 0, 0, 0, 2, 3, 0, 0, 3, 4>>],
  [type |-> "StructVer$1", image |-> <<3, 255, 0, 0, 0, 2, 3, 0>>],
  [type |-> "Seq",       image |-> <<3, 5, 77, 2, 2, 9, 18, 0, 1, 2>>],
  [type |-> "Top",       image |-> <<1, 4, 7, 9, 0, 4, 5, 43, 255, 17>>],
  [type |-> "Top",       image |-> <<0, 5, 7, 99, 99, 3, 0, 99, 1, 18>>],
  [type |-> "Top",       image |-> <<0, 0, 7>>],
  [type |-> "Top",       image |-> <<0, 3, 7, 3, 0, 99, 9, 18>>],
  [type |-> "Holder",    image |-> <<1, 2, 1, 10, 1, 11, 0>>],
  [type |-> "Holder",    image |-> <<7, 1, 0>>],
  [type |-> "Wrap",      image |-> <<9, 1, 7>>],
  [type |-> "Wrap",      image |-> <<9, 2, 171>>],
  [type |-> "Outer",     image |-> <<2, 0, 6, 6, 0, 0, 5, 9, 1, 18>>]
}

NoObject == [meta |-> [type |-> NoType, rawOffset |-> -1, absOffset |-> 0], f |-> <<>>]

NoRead == [status |-> "none", type |-> "", start |-> 0, end |-> 0, maxDepth |-> 0,
           reject |-> {}, log |-> <<>>]

\* new Commander(argv): nothing selected, nothing run.  written lists the
\* writeFileBinary calls of the last command that succeeded.
NewCommander ==
  [argn |-> 2, verboseFlag |-> TRUE, cards |-> <<>>, data |-> <<>>,
   status |-> "running", written |-> <<>>]

\* No decode is in progress.
NoWalk == [status |-> "none", maxDepth |-> 0, stack |-> <<>>]

\* No extractPowerPlayFromVBIOS call has been made.
NoCall == [offset |-> 0, status |-> "none", out |-> <<>>]

NoUpdate == [status |-> "none", start |-> 0, pre |-> <<>>, trace |-> <<>>, log |-> <<>>]

Init ==
  /\ ctx = NewContext
  /\ defined = 0
  /\ defLog = <<>>
  /\ buffer = <<>>
  /\ rd = NoRead
  /\ object = NoObject
  /\ edits = <<>>
  /\ up = NoUpdate
  /\ vb = NoCall
  /\ cmd = NewCommander
  /\ walk = NoWalk

\* The next $define call of the start-up script; a call that throws leaves
\* the context as it was.
DefineNext ==
  /\ defined < Len(Catalog)
  /\ \E r \in {Define(ctx, ResolveSpec(ctx, Catalog[defined + 1]))} :
       /\ ctx' = r.c
       /\ defLog' = Append(defLog, r.err)
  /\ defined' = defined + 1
  /\ UNCHANGED <<buffer, rd, object, edits, up, vb, cmd, walk>>

\* object = ctx.$readObject({buffer, type, start, end, maxDepth, filter}) on a buffer that
\* holds an image at start, after bytes of other data (170).  A throw leaves
\* no object.
Read ==
  /\ defined = Len(Catalog)
  /\ rd.status = "none"
  /\ \E inp \in Inputs, opt \in ReadOptions :
       \E buf \in {[i \in 1..opt.start |-> 170] \o inp.image} :
         \E r \in {readRoot(ctx, buf, getType(ctx, inp.type), opt.start,
                            IF opt.end < 0 THEN Len(buf) ELSE opt.end,
                            opt.maxDepth, opt.reject)} :
           /\ inp.type \in DOMAIN ctx
           /\ r.R.st # "wide"
           /\ buffer' = buf
           /\ rd' = [status |-> r.R.st, type |-> inp.type, start |-> opt.start,
                     end |-> r.R.end,
                     maxDepth |-> opt.maxDepth, reject |-> opt.reject,
                     log |-> r.R.log]
           /\ object' = IF r.R.st = "ok" THEN r.obj ELSE NoObject
  /\ UNCHANGED <<ctx, defined, defLog, edits, up, vb, cmd, walk>>

\* The caller may change one more position of the graph, or this one again.
CanEdit(path) ==
  /\ rd.status = "ok"
  /\ up.status = "none"
  /\ path \in DOMAIN edits \/ Cardinality(DOMAIN edits) < MaxEdits

Edited(path, op, val) == (path :> [op |-> op, val |-> val]) @@ edits

\* object.a.b = v for a number field or an entry of an array of numbers.
SetNum ==
  /\ \E path \in ObjPaths(object), v \in EditValues :
       /\ CanEdit(path)
       /\ Get(object, path).k = "num"
       /\ Get(object, path).v # v
       /\ object' = Put(object, path, VNum(v))
       /\ edits' = Edited(path, "set", VNum(v))
  /\ UNCHANGED <<ctx, defined, defLog, buffer, rd, up, vb, cmd, walk>>

\* object.a.b = "..." for a string member that the type of a decoded object
\* declares, held by the object or not.
SetStr ==
  /\ \E o \in {<<>>} \cup {q \in ObjPaths(object) : Get(object, q).k = "obj"},
        v \in EditStrings :
       \E m \in {x \in SeqToSet(Get(object, o).v.meta.type.members) :
                    "STRING" \in x.flags} :
         /\ CanEdit(Append(o, Step(m.name, -1)))
         /\ DOMAIN Get(object, o).v.f # {}
         /\ HasField(Get(object, o).v, m.name) => Get(object, o).v.f[m.name] # VStr(v)
         /\ object' = Put(object, Append(o, Step(m.name, -1)), VStr(v))
         /\ edits' = Edited(Append(o, Step(m.name, -1)), "set", VStr(v))
  /\ UNCHANGED <<ctx, defined, defLog, buffer, rd, up, vb, cmd, walk>>

\* object.a.b = null for a member that holds a nested object.
SetNull ==
  /\ \E path \in ObjPaths(object) :
       /\ CanEdit(path)
       /\ Get(object, path).k = "obj"
       /\ Last(path).i < 0
       /\ object' = Put(object, path, VNull)
       /\ edits' = Edited(path, "set", VNull)
  /\ UNCHANGED <<ctx, defined, defLog, buffer, rd, up, vb, cmd, walk>>

\* delete object.a.b
Delete ==
  /\ \E path \in ObjPaths(object) :
       /\ CanEdit(path)
       /\ Last(path).i < 0
       /\ object' = Remove(object, path)
       /\ edits' = Edited(path, "delete", VNull)
  /\ UNCHANGED <<ctx, defined, defLog, buffer, rd, up, vb, cmd, walk>>

\* ctx.$updateObject({buffer, object}) or, for an object read at a start
\* offset, ctx.$updateObject({buffer, object, start}).
Update ==
  /\ rd.status = "ok"
  /\ up.status = "none"
  /\ \E start \in {0, rd.start} :
       \E W \in {updateRoot(buffer, object, start)} :
          /\ buffer' = W.buf
          /\ up' = [status |-> W.st, start |-> start, pre |-> buffer,
                    trace |-> W.trace, log |-> W.log]
  /\ UNCHANGED <<ctx, defined, defLog, rd, object, edits, vb, cmd, walk>>

Next == DefineNext \/ Read \/ SetNum \/ SetStr \/ SetNull \/ Delete \/ Update

Spec == Init /\ [][Next]_vars

-----------------------------------------------------------------------------
(* Properties: what the checks below read off a state *)

\* The buffer as $readObject saw it.
ReadBuffer == IF up.status = "none" THEN buffer ELSE up.pre

\* The graph is the one $readObject returned, nothing assigned since.
Unedited == rd.status = "ok" /\ DOMAIN edits = {}

\* $updateObject has run with the start offset the object was read with.
Updated == up.status # "none" /\ up.start = rd.start

\* Every position of the graph, the root (<<>>) included.
Positions == {<<>>} \cup ObjPaths(object)

\* The positions that hold an object.
ObjectPositions == {p \in Positions : Get(object, p).k = "obj"}

\* The object that holds position p, and the member of its type for p.
OwnerOf(p) == Get(object, SubSeq(p, 1, Len(p) - 1)).v

MemberAt(p) == MemberOf(OwnerOf(p).meta.type, Last(p).f)

\* The bytes [a, a + n).
Range(a, n) == {a + i : i \in 0..(n - 1)}

RECURSIVE WordAt(_, _, _)
\* The unsigned little-endian number in the n bytes at offset off.
WordAt(buf, off, n) ==
  IF n = 0 THEN 0 ELSE buf[off + 1] + 256 * WordAt(buf, off + 1, n - 1)

\* The number a little-endian primitive member of the given size and flags
\* holds at offset off.
NumberAt(buf, off, size, flags) ==
  IF "SIGNED" \in flags /\ WordAt(buf, off, size) >= 2^(8 * size - 1)
  THEN WordAt(buf, off, size) - 2^(8 * size - 1) - 2^(8 * size - 1)
  ELSE WordAt(buf, off, size)

RECURSIVE Covered(_)
\* The bytes inside the range of a member that is present in the graph below
\* the object o, each object taken at the offset it was decoded at.
Covered(o) ==
  UNION { LET m == MemberOf(o.meta.type, n)
              v == o.f[n]
              a == o.meta.absOffset + m.offset
          IN Range(a, m.size)
               \cup (IF v.k = "obj" THEN Covered(v.v) ELSE {})
               \cup (IF v.k = "arr"
                     THEN UNION { IF v.v[j].k = "obj" THEN Covered(v.v[j].v)
                                  ELSE Range(a + (j - 1) * m.ref.size, m.ref.size)
                                  : j \in 1..Len(v.v) }
                     ELSE {})
        : n \in DOMAIN o.f }

\* v is a value the storage of a primitive of this size, signedness and bit
\* width (0: the whole word) can hold.
InRange(v, size, flags, bits) ==
  LET w == IF bits # 0 THEN bits ELSE 8 * size
  IN IF "SIGNED" \in flags THEN -(2^(w - 1)) <= v /\ v < 2^(w - 1)
     ELSE 0 <= v /\ (w >= 31 \/ v < 2^w)

RECURSIVE PopCount(_, _)
\* The number of bits set among the bits 0..i of an int32.
PopCount(x, i) == IF i < 0 THEN 0 ELSE Bit(x, i) + PopCount(x, i - 1)

\* The type a number at position p is stored as, and its bit width.
StorageOf(p) ==
  IF Last(p).i < 0
  THEN [size |-> MemberAt(p).size, flags |-> MemberAt(p).flags,
        bits |-> PopCount(MemberAt(p).bitMask, 31)]
  ELSE [size |-> MemberAt(p).ref.size, flags |-> MemberAt(p).ref.flags, bits |-> 0]

\* The number at position p selects a layout: it is a $verInfo member of its
\* struct, or the length or version field of an array member.
IsSelector(p) ==
  /\ Last(p).i < 0
  /\ \/ Last(p).f \in SeqToSet(OwnerOf(p).meta.type.verInfo)
     \/ \E i \in 1..Len(OwnerOf(p).meta.type.members) :
          \/ OwnerOf(p).meta.type.members[i].length.s = Last(p).f
          \/ OwnerOf(p).meta.type.members[i].version = Last(p).f

\* The position the caller changed, when there is only one.
TheEdit == CHOOSE p \in DOMAIN edits : TRUE

\* A fresh $readObject of the buffer as it is now, with the options of the
\* first read and no depth limit.
FreshRead ==
  readRoot(ctx, buffer, getType(ctx, rd.type), rd.start, rd.end, Infinity, {})

-----------------------------------------------------------------------------
(* Round trip, frame, write-then-read *)

\* C1: $readObject followed by $updateObject of the returned object, nothing
\* assigned in between, leaves every byte of the buffer as it was.
C1_RoundTrip == (Unedited /\ Updated) => buffer = up.pre

\* C2: $updateObject changes only bytes inside the range of a member that is
\* present in the object graph it is given.
C2_Frame ==
  Updated =>
    \A i \in 1..Len(buffer) :
      buffer[i] # up.pre[i] => (i - 1) \in Covered(object)

\* C3: once an in-range number v is assigned to a primitive field of the graph
\* (one that selects no layout) and $updateObject has run, a fresh $readObject
\* returns v for that field.
C3_WriteThenRead ==
  (Updated /\ Cardinality(DOMAIN edits) = 1 /\ edits[TheEdit].val.k = "num"
     /\ ~IsSelector(TheEdit)
     /\ InRange(edits[TheEdit].val.v, StorageOf(TheEdit).size,
                StorageOf(TheEdit).flags, StorageOf(TheEdit).bits))
  => /\ FreshRead.R.st = "ok"
     /\ TheEdit \in ObjPaths(FreshRead.obj)
     /\ Get(FreshRead.obj, TheEdit) = edits[TheEdit].val

-----------------------------------------------------------------------------
(* Bit-fields *)

\* Bit b of the word whose bytes, in memory order, are w.
WordBit(w, flags, b) ==
  IF "BIG_ENDIAN" \in flags
  THEN (w[Len(w) - (b \div 8)] \div (2^(b % 8))) % 2
  ELSE (w[(b \div 8) + 1] \div (2^(b % 8))) % 2

\* The event e of the write trace leaves the word as
\* (old & ~mask) | ((value << shift) & mask), bit by bit.
MergedWord(e) ==
  \A b \in 0..(8 * Len(e.before) - 1) :
    WordBit(e.after, e.flags, b) =
      IF Bit(e.mask, b) = 1
      THEN (IF b >= e.shift THEN Bit(e.val, b - e.shift) ELSE 0)
      ELSE WordBit(e.before, e.flags, b)

\* C4: every write of a bit-field member by $updateObject leaves the bits of
\* its word outside the member's mask as they were and sets the bits inside
\* to those of (value << shift).
C4_BitFieldWrite ==
  \A i \in 1..Len(up.trace) :
    (up.trace[i].k = "bits" /\ up.trace[i].n = Len(up.trace[i].before))
      => MergedWord(up.trace[i])

\* C4 witness: a number was assigned to a bit-field whose word has other bits
\* set, and the update changed the word.
C4_Witness ==
  /\ up.status = "ok"
  /\ Cardinality(DOMAIN edits) = 1
  /\ \E i \in 1..Len(up.trace) :
       /\ up.trace[i].k = "bits"
       /\ up.trace[i].before # up.trace[i].after
       /\ \E b \in 0..(8 * Len(up.trace[i].before) - 1) :
            Bit(up.trace[i].mask, b) = 0
              /\ WordBit(up.trace[i].before, up.trace[i].flags, b) = 1

\* The Catalog entries defined so far without an error, and for entry k the
\* struct it registered, the struct it extends and the number of members
\* that come from that struct.
Registered == {k \in 1..defined : defLog[k] = ""}

StructOf(k) ==
  ctx[fullNameOf(IF Has(Catalog[k], "name") THEN Catalog[k].name ELSE Catalog[k].extend,
                 IF Has(Catalog[k], "version") THEN Catalog[k].version ELSE <<>>)]

Inherited(k) ==
  IF Has(Catalog[k], "extend") THEN Len(ctx[Catalog[k].extend].members) ELSE 0

\* The $bitSize member i of the struct of entry k was declared with (0: none;
\* a member that comes from the extended struct has the width of its mask).
DeclaredBits(k, i) ==
  IF i <= Inherited(k) THEN PopCount(StructOf(k).members[i].bitMask, 31)
  ELSE IF Has(Catalog[k].members[i - Inherited(k)], "bitSize")
    THEN Catalog[k].members[i - Inherited(k)].bitSize
  ELSE 0

\* The mask of m is the bits [m.bitShift, m.bitShift + w).
MaskIs(m, w) ==
  \A b \in 0..31 : Bit(m.bitMask, b) = (IF m.bitShift <= b /\ b < m.bitShift + w THEN 1 ELSE 0)

\* Member i of the struct of entry k directly follows a bit-field of the same
\* byte size whose word has unused bits.
FollowsOpenWord(k, i) ==
  /\ i > 1
  /\ DeclaredBits(k, i - 1) # 0
  /\ StructOf(k).members[i - 1].size = StructOf(k).members[i].size
  /\ StructOf(k).members[i - 1].bitShift + DeclaredBits(k, i - 1)
       < 8 * StructOf(k).members[i - 1].size

\* The placement of the bit-field member i of the struct of entry k.
Packed(k, i) ==
  LET m == StructOf(k).members[i]
  IN /\ MaskIs(m, DeclaredBits(k, i))
     /\ IF FollowsOpenWord(k, i)
        THEN /\ m.offset = StructOf(k).members[i - 1].offset
             /\ m.bitShift = StructOf(k).members[i - 1].bitShift + DeclaredBits(k, i - 1)
        ELSE /\ m.bitShift = 0
             /\ i > 1 => m.offset >= StructOf(k).members[i - 1].offset
                                       + StructOf(k).members[i - 1].size

\* The bit-fields of s that share the word at the offset of member i.
WordMates(s, i) ==
  {j \in 1..Len(s.members) :
     s.members[j].bitMask # 0 /\ s.members[j].offset = s.members[i].offset}

RECURSIVE SumBits(_, _)
SumBits(s, js) ==
  IF js = {} THEN 0
  ELSE LET j == CHOOSE x \in js : TRUE
       IN PopCount(s.members[j].bitMask, 31) + SumBits(s, js \ {j})

\* C5: a bit-field declared directly after a bit-field of the same byte size
\* with unused bits shares its offset, shifted by the bits used so far, and a
\* bit-field declared anywhere else starts a word at shift 0; the bit-fields
\* of one word have disjoint masks and at most 8 x size bits together.
C5_BitFieldPacking ==
  \A k \in (IF rd.status = "none" THEN Registered ELSE {}) :
    \A i \in 1..Len(StructOf(k).members) :
      DeclaredBits(k, i) # 0 =>
        /\ Packed(k, i)
        /\ SumBits(StructOf(k), WordMates(StructOf(k), i)) <= 8 * StructOf(k).members[i].size
        /\ \A j \in WordMates(StructOf(k), i) \ {i} :
             \A b \in 0..31 :
               Bit(StructOf(k).members[i].bitMask, b)
                 + Bit(StructOf(k).members[j].bitMask, b) <= 1

\* C5 witness: StructB and Bits16 are defined, with a word shared by two
\* members and a member that starts the next word.
C5_Witness ==
  /\ "StructB" \in DOMAIN ctx
  /\ "Bits16" \in DOMAIN ctx
  /\ ctx["StructB"].members[2].offset = 0
  /\ ctx["StructB"].members[2].bitShift = 1
  /\ ctx["StructB"].members[3].offset = 4
  /\ ctx["Bits16"].members[3].bitShift = 12
  /\ ctx["Bits16"].members[4].bitShift = 0

-----------------------------------------------------------------------------
(* Layout *)

\* The byte size the declaration ms of a member asks for: the declared length
\* of a string, entry size x literal length of a fixed array, nothing for an
\* array counted by a field, else the size of the type.
DeclaredSize(ms) ==
  IF ms.type \in {"Str", "Hex"} THEN ms.length.n
  ELSE IF ms.type = "Array"
    THEN (IF ms.length.k = "number" THEN ctx[ms.ref].size * ms.length.n ELSE 0)
  ELSE ctx[ms.type].size

\* Every string and array member that entry k declares gives a $length.
LengthsDeclared(k) ==
  \A i \in 1..Len(Catalog[k].members) :
    Catalog[k].members[i].type \in {"Str", "Hex", "Array"}
      => Has(Catalog[k].members[i], "length")

RECURSIVE RunningSize(_, _)
\* The size of the struct of entry k once its first i members are added.
RunningSize(k, i) ==
  IF i <= Inherited(k)
    THEN (IF Has(Catalog[k], "extend") THEN ctx[Catalog[k].extend].size ELSE 0)
  ELSE RunningSize(k, i - 1)
         + (IF StructOf(k).members[i].bitShift # 0 THEN 0
            ELSE DeclaredSize(Catalog[k].members[i - Inherited(k)]))

\* The sizes the library's test asserts.
TestSizes ==
  [n \in {"Header", "StructA", "StructE", "StructF", "StructVer$1", "StructVer$2"} |->
     CASE n = "Header" -> 4 [] n = "StructA" -> 9 [] n = "StructE" -> 40
       [] n = "StructF" -> 13 [] n = "StructVer$1" -> 8 [] n = "StructVer$2" -> 11]

\* C6: a member that continues no bit-field is placed at the running size of
\* its struct, which then grows by the member's byte size; a struct that
\* extends another starts with that struct's members at their offsets and
\* its size; the structs of the test have the sizes the test asserts.
C6_Layout ==
  /\ \A k \in (IF rd.status = "none" THEN {j \in Registered : LengthsDeclared(j)} ELSE {}) :
       /\ \A i \in 1..Inherited(k) :
            /\ StructOf(k).members[i].name = ctx[Catalog[k].extend].members[i].name
            /\ StructOf(k).members[i].offset = ctx[Catalog[k].extend].members[i].offset
       /\ \A i \in (Inherited(k) + 1)..Len(StructOf(k).members) :
            StructOf(k).members[i].bitShift = 0
              => StructOf(k).members[i].offset = RunningSize(k, i - 1)
       /\ Len(StructOf(k).members) = Inherited(k) + Len(Catalog[k].members)
       /\ StructOf(k).size = RunningSize(k, Len(StructOf(k).members))
  /\ \A n \in DOMAIN TestSizes : n \in DOMAIN ctx => ctx[n].size = TestSizes[n]

\* C6 witness: every struct of the test is defined; StructA has the members
\* of Header and its own behind them.
C6_Witness ==
  /\ DOMAIN TestSizes \subseteq DOMAIN ctx
  /\ Len(ctx["StructA"].members) = 5
  /\ ctx["StructA"].members[4].offset = 4
  /\ ctx["StructA"].members[5].offset = 8
  /\ ctx["StructVer$2"].members[5].offset = 10

-----------------------------------------------------------------------------
(* Reading: variants, offsets, null references *)

\* The type the object at position p was asked to be decoded as: the root
\* type, the $ref of a reference member, the $type of an inline struct
\* (NoType for an entry of an array).
DeclaredType(p) ==
  IF p = <<>> THEN getType(ctx, rd.type)
  ELSE IF Last(p).i >= 0 THEN NoType
  ELSE IF MemberAt(p).ref # NoType THEN MemberAt(p).ref
  ELSE MemberAt(p).type

RECURSIVE JoinValues(_, _, _)
\* The numbers the object o holds for the names of verInfo from the i-th on,
\* joined by ".".
JoinValues(o, verInfo, i) ==
  IF i > Len(verInfo) THEN ""
  ELSE (IF i > 1 THEN "." ELSE "") \o ToString(o.f[verInfo[i]].v)
         \o JoinValues(o, verInfo, i + 1)

\* The name of the variant of the base type t that the object o selects.
VariantName(t, o) == t.name \o "$" \o JoinValues(o, t.verInfo, 1)

\* The object at position p was decoded through a base type with $verInfo
\* whose variant for the decoded values is registered.
Dispatched(p) ==
  /\ DeclaredType(p).verInfo # <<>>
  /\ DeclaredType(p).version = <<>>
  /\ \A i \in 1..Len(DeclaredType(p).verInfo) :
       DeclaredType(p).verInfo[i] \in DOMAIN Get(object, p).v.f
  /\ VariantName(DeclaredType(p), Get(object, p).v) \in DOMAIN ctx

\* C7: an object decoded through a base type with $verInfo whose variant is
\* registered has the variant as its $meta.type and holds exactly the
\* members of the variant, the numbers being those at the variant's offsets.
C7_VersionDispatch ==
  (Unedited /\ rd.maxDepth = Infinity) =>
    \A p \in ObjectPositions : Dispatched(p) =>
      LET o == Get(object, p).v
          t == ctx[VariantName(DeclaredType(p), o)]
      IN /\ o.meta.type = t
         /\ DOMAIN o.f = {t.members[i].name : i \in 1..Len(t.members)}
         /\ \A i \in 1..Len(t.members) :
              (t.members[i].name \in DOMAIN o.f /\ o.f[t.members[i].name].k = "num")
                => o.f[t.members[i].name].v =
                     NumberAt(ReadBuffer, o.meta.absOffset + t.members[i].offset,
                              t.members[i].size, t.members[i].flags)

RECURSIVE AbsFromAt(_)
\* The base of absolute offsets for the members of the object at position p:
\* the offset of the nearest isolated struct from p upwards, else the start.
AbsFromAt(p) ==
  IF "ISOLATE" \in Get(object, p).v.meta.type.flags THEN Get(object, p).v.meta.absOffset
  ELSE IF p = <<>> THEN rd.start
  ELSE AbsFromAt(SubSeq(p, 1, Len(p) - 1))

RECURSIVE Isolated(_)
\* The object at position p is, or lies beneath, an isolated struct.
Isolated(p) ==
  \/ "ISOLATE" \in Get(object, p).v.meta.type.flags
  \/ p # <<>> /\ Isolated(SubSeq(p, 1, Len(p) - 1))

\* The positions that hold an object reached through a reference member.
References ==
  {p \in ObjectPositions : p # <<>> /\ Last(p).i < 0 /\ MemberAt(p).ref # NoType}

\* The raw value stored in the buffer for the reference member at position p.
RawAt(p) ==
  WordAt(ReadBuffer, OwnerOf(p).meta.absOffset + MemberAt(p).offset, MemberAt(p).size)

\* C8: an object reached through an absolute-offset reference held by an
\* isolated struct, or by an object beneath one, is decoded at the offset of
\* the nearest isolated struct above the reference plus the raw value.
C8_Isolation ==
  Unedited =>
    \A p \in References :
      ("ABSOLUTE_OFFSET" \in MemberAt(p).flags /\ Isolated(SubSeq(p, 1, Len(p) - 1)))
        => Get(object, p).v.meta.absOffset
             = AbsFromAt(SubSeq(p, 1, Len(p) - 1)) + RawAt(p)

\* C8 witness: an object decoded through an absolute reference of an isolated
\* struct that does not start the buffer, at the struct's offset plus raw.
C8_Witness ==
  /\ Unedited
  /\ \E p \in References :
       /\ "ABSOLUTE_OFFSET" \in MemberAt(p).flags
       /\ "ISOLATE" \in OwnerOf(p).meta.type.flags
       /\ OwnerOf(p).meta.absOffset # rd.start
       /\ Get(object, p).v.meta.absOffset = OwnerOf(p).meta.absOffset + RawAt(p)

\* C9: the root has rawOffset -1 and absOffset start; an object reached through
\* a reference has the raw value as rawOffset and, as absOffset, the base of
\* absolute offsets plus raw (ABSOLUTE_OFFSET) or the offset of the struct
\* that holds the reference plus raw; an inline struct and an array entry
\* have rawOffset -1 and the offset they were read from.
C9_ReferenceResolution ==
  Unedited =>
    \A p \in ObjectPositions :
      LET meta == Get(object, p).v.meta
      IN IF p = <<>> THEN meta.rawOffset = -1 /\ meta.absOffset = rd.start
         ELSE IF p \in References
           THEN /\ RawAt(p) # 0
                /\ meta.rawOffset = RawAt(p)
                /\ meta.absOffset =
                     IF "ABSOLUTE_OFFSET" \in MemberAt(p).flags
                     THEN AbsFromAt(SubSeq(p, 1, Len(p) - 1)) + RawAt(p)
                     ELSE OwnerOf(p).meta.absOffset + RawAt(p)
         ELSE IF Last(p).i < 0
           THEN /\ meta.rawOffset = -1
                /\ meta.absOffset = OwnerOf(p).meta.absOffset + MemberAt(p).offset
         ELSE /\ meta.rawOffset = -1
              /\ meta.absOffset = OwnerOf(p).meta.absOffset + MemberAt(p).offset
                                    + Last(p).i * meta.type.size

\* C9 witness: a struct that is not at the base of absolute offsets holds an
\* absolute and a relative reference, both decoded.
C9_Witness ==
  /\ Unedited
  /\ \E p, q \in References :
       /\ SubSeq(p, 1, Len(p) - 1) = SubSeq(q, 1, Len(q) - 1)
       /\ "ABSOLUTE_OFFSET" \in MemberAt(p).flags
       /\ "ABSOLUTE_OFFSET" \notin MemberAt(q).flags
       /\ OwnerOf(p).meta.absOffset # AbsFromAt(SubSeq(p, 1, Len(p) - 1))
       /\ DOMAIN Get(object, p).v.f # {}
       /\ DOMAIN Get(object, q).v.f # {}

\* The positions of the reference members that the graph holds, whatever
\* their value.
ReferenceMembers ==
  {p \in ObjPaths(object) :
     Last(p).i < 0 /\ "PRIMITIVE" \in MemberAt(p).flags /\ MemberAt(p).ref # NoType}

\* The path of position p as the library writes it: a.b[1].c
RECURSIVE PathString(_)
PathString(p) ==
  IF p = <<>> THEN ""
  ELSE nestPath(PathString(SubSeq(p, 1, Len(p) - 1)),
                IF Last(p).i < 0 THEN Last(p).f
                ELSE Last(p).f \o "[" \o ToString(Last(p).i) \o "]")

\* C10 (read): a reference member whose raw value is 0 decodes to null.
NullDecoded ==
  Unedited =>
    \A p \in ReferenceMembers : RawAt(p) = 0 => Get(object, p) = VNull

\* C10 (write): for a reference member that holds null, $updateObject writes
\* zeros into the member's bytes and enters no object for it.
NullWritten ==
  up.status = "ok" =>
    \A p \in ReferenceMembers : Get(object, p) = VNull =>
      \A i \in 1..Len(up.trace) :
        up.trace[i].path = PathString(p) =>
          /\ up.trace[i].k = "prim"
          /\ up.trace[i].n = MemberAt(p).size
          /\ \A j \in 1..Len(up.trace[i].after) : up.trace[i].after[j] = 0

\* C10: a reference member whose raw value is 0 decodes to null, and
\* $updateObject writes raw 0 for a null reference and nothing at a target.
C10_NullReference == NullDecoded /\ NullWritten

\* C10 witness: the caller set a reference that was decoded to null, and the
\* update zeroed a pointer that was not zero; another reference of the graph
\* was decoded as null.
C10_Witness ==
  /\ up.status = "ok"
  /\ \E p \in DOMAIN edits :
       /\ edits[p].val = VNull /\ edits[p].op = "set"
       /\ p \in ReferenceMembers
       /\ \E i \in 1..Len(up.trace) :
            /\ up.trace[i].path = PathString(p)
            /\ up.trace[i].before # up.trace[i].after
  /\ \E q \in ReferenceMembers \ DOMAIN edits : Get(object, q) = VNull

-----------------------------------------------------------------------------
(* Depth limit and filter *)

\* The object readMember returns for the reference member at position p when
\* it does not follow it: no member, and a $meta of the referenced type, the
\* raw value and the resolved offset.
StubAt(p) ==
  [meta |-> [type      |-> MemberAt(p).ref,
             rawOffset |-> RawAt(p),
             absOffset |-> IF "ABSOLUTE_OFFSET" \in MemberAt(p).flags
                           THEN AbsFromAt(SubSeq(p, 1, Len(p) - 1)) + RawAt(p)
                           ELSE OwnerOf(p).meta.absOffset + RawAt(p)],
   f    |-> <<>>]

\* The reference member at position p is read at a depth (the number of
\* objects above its struct) that has reached maxDepth, or the filter rejects
\* its path.
Limited(p) == Len(p) - 1 >= rd.maxDepth \/ PathString(p) \in rd.reject

\* C11: a non-null reference met at a depth >= maxDepth, or whose path the
\* filter rejects, is returned as an object without members whose $meta holds
\* the referenced type, the raw value and the resolved offset; with
\* maxDepth = 0 no reference of the root is followed.
C11_DepthAndFilter ==
  Unedited =>
    \A p \in ReferenceMembers :
      (RawAt(p) # 0 /\ Limited(p)) => Get(object, p) = VObj(StubAt(p))

\* C11 witness: read with maxDepth = 1, a reference of the root was followed
\* and a reference of the object it leads to was not.
C11_Witness ==
  /\ Unedited
  /\ rd.maxDepth = 1
  /\ \E p \in ReferenceMembers :
       /\ Len(p) = 2
       /\ RawAt(p) # 0
       /\ Get(object, p) = VObj(StubAt(p))
       /\ DOMAIN OwnerOf(p).f # {}
       /\ OwnerOf(p).meta.rawOffset > 0

-----------------------------------------------------------------------------
(* Writing: offsets, pointers, arrays *)

\* C12: every object $updateObject enters (by reference, inline or as an array
\* entry) is written at the offset $readObject decoded it at, its
\* $meta.absOffset, also beneath an isolated struct that is not the root.
C12_WriterOffsets ==
  Updated =>
    \A p \in ObjectPositions :
      \A i \in 1..Len(up.trace) :
        (up.trace[i].k = "obj" /\ up.trace[i].path = PathString(p))
          => up.trace[i].off = Get(object, p).v.meta.absOffset

\* The caller changed nothing but the values of number and string fields.
OnlyValuesEdited ==
  \A p \in DOMAIN edits : edits[p].op = "set" /\ edits[p].val.k \in {"num", "str"}

\* The raw value the buffer buf holds for the reference member at position p.
PointerIn(buf, p) ==
  WordAt(buf, OwnerOf(p).meta.absOffset + MemberAt(p).offset, MemberAt(p).size)

\* C13: after $updateObject on a graph in which only number and string fields
\* were changed, the buffer holds for every reference member the raw value
\* it held before.
C13_PointersKept ==
  (Updated /\ OnlyValuesEdited) =>
    \A p \in ReferenceMembers : PointerIn(buffer, p) = PointerIn(up.pre, p)

\* The positions of the array members whose array in the graph has a length
\* other than the count of the schema: the literal $length, or the value the
\* graph holds for the length field.
MismatchedArrays ==
  {p \in ObjPaths(object) :
     /\ Last(p).i < 0
     /\ "ARRAY" \in MemberAt(p).flags
     /\ Get(object, p).k = "arr"
     /\ Len(Get(object, p).v) #
          (IF MemberAt(p).length.k = "number" THEN MemberAt(p).length.n
           ELSE CountOf(OwnerOf(p), MemberAt(p).length.s))}

\* The paths of the entries of the array at position p.
EntryPaths(p) ==
  {PathString(p) \o "[" \o ToString(j - 1) \o "]" : j \in 1..Len(Get(object, p).v)}

\* C14: when the array of the graph has a length other than the count of the
\* schema, $updateObject writes no entry of the array, logs the mismatch and
\* goes on: the update is not aborted.
C14_ArrayMismatch ==
  Updated =>
    \A p \in MismatchedArrays :
      /\ up.status = "ok"
      /\ up.log # <<>>
      /\ \A i \in 1..Len(up.trace) : up.trace[i].path \notin EntryPaths(p)

-----------------------------------------------------------------------------
(* Strings *)

\* The positions of the members of the given encoding that the types of the
\* decoded objects of the graph declare, present in the graph or not.
StringMembers(encoding) ==
  UNION { {Append(p, Step(m.name, -1)) :
             m \in {x \in SeqToSet(Get(object, p).v.meta.type.members) :
                      {"STRING", encoding} \subseteq x.flags}}
          : p \in {q \in ObjectPositions : DOMAIN Get(object, q).v.f # {}} }

\* The bytes of the field of the string member at position p in buf.
FieldBytes(buf, p) ==
  [i \in 1..MemberAt(p).size |->
     buf[OwnerOf(p).meta.absOffset + MemberAt(p).offset + i]]

\* v is b without its trailing run of NUL bytes.
TrailingNulsRemoved(v, b) ==
  /\ Len(v) <= Len(b)
  /\ \A i \in 1..Len(b) : IF i <= Len(v) THEN v[i] = b[i] ELSE b[i] = 0
  /\ v = <<>> \/ Last(v) # 0

HexDigit(c) ==
  IF c >= 48 /\ c <= 57 THEN c - 48
  ELSE IF c >= 65 /\ c <= 70 THEN c - 55
  ELSE IF c >= 97 /\ c <= 102 THEN c - 87
  ELSE -1

\* The string s can be encoded: any string as ASCII, pairs of hexadecimal
\* digits as hex.
Encodable(flags, s) ==
  "HEX" \in flags => (Len(s) % 2 = 0 /\ \A i \in 1..Len(s) : HexDigit(s[i]) >= 0)

\* The encoded bytes of s: its character codes, or one byte per two digits.
EncodedBytes(flags, s) ==
  IF "HEX" \in flags
  THEN [i \in 1..(Len(s) \div 2) |-> 16 * HexDigit(s[2 * i - 1]) + HexDigit(s[2 * i])]
  ELSE s

\* The first min(|b|, n) bytes of b followed by NUL bytes up to n.
PaddedTo(b, n) == [i \in 1..n |-> IF i <= Len(b) THEN b[i] ELSE 0]

\* C16: updating a string member of size n with the string s writes the n
\* bytes of its field and no other: the first min(|s|, n) encoded bytes of s
\* followed by NUL bytes up to n.
C16_StringWrite ==
  (Updated /\ Cardinality(DOMAIN edits) = 1 /\ edits[TheEdit].val.k = "str"
     /\ Encodable(MemberAt(TheEdit).flags, edits[TheEdit].val.v))
  => /\ up.status = "ok"
     /\ FieldBytes(buffer, TheEdit) =
          PaddedTo(EncodedBytes(MemberAt(TheEdit).flags, edits[TheEdit].val.v),
                   MemberAt(TheEdit).size)
     /\ \E i \in 1..Len(up.trace) : up.trace[i].path = PathString(TheEdit)
     /\ \A i \in 1..Len(up.trace) :
          up.trace[i].path = PathString(TheEdit) =>
            /\ up.trace[i].k = "str"
            /\ up.trace[i].off = OwnerOf(TheEdit).meta.absOffset + MemberAt(TheEdit).offset
            /\ up.trace[i].n = MemberAt(TheEdit).size

\* The character code of the uppercase hexadecimal digit of d (0..15).
DigitChar(d) == IF d <= 9 THEN 48 + d ELSE 55 + d

\* The bytes b as text: two uppercase hexadecimal digits a byte, high nibble
\* first.
HexText(b) ==
  [i \in 1..(2 * Len(b)) |->
     IF i % 2 = 1 THEN DigitChar(b[(i + 1) \div 2] \div 16)
     ELSE DigitChar(b[i \div 2] % 16)]

\* C17: a Hex member of size n decodes to the 2n uppercase hexadecimal digits
\* of the bytes of its field, high nibble first, stored in the decoded object
\* under the member's name.
C17_HexDecode ==
  Unedited =>
    \A p \in StringMembers("HEX") :
      /\ p \in ObjPaths(object)
      /\ Get(object, p) = VStr(HexText(FieldBytes(ReadBuffer, p)))

-----------------------------------------------------------------------------
(* Definitions: refused members, the registry *)

\* The full name entry k of the Catalog is defined under.
EntryName(k) ==
  fullNameOf(IF Has(Catalog[k], "name") THEN Catalog[k].name ELSE Catalog[k].extend,
             IF Has(Catalog[k], "version") THEN Catalog[k].version ELSE <<>>)

\* The names that members of entry k before its i-th declared one use: those
\* of the struct it extends and those declared earlier.
NamesBefore(k, i) ==
  (IF Has(Catalog[k], "extend")
   THEN {ctx[Catalog[k].extend].members[j].name :
          j \in 1..Len(ctx[Catalog[k].extend].members)}
   ELSE {})
  \cup {Catalog[k].members[j].name :
          j \in {x \in 1..(i - 1) : Has(Catalog[k].members[x], "name")}}

\* The $bitSize of the member declaration ms is one the claim refuses: zero
\* or less, more than the bits of the type, or on a string, array or struct.
BadBitSize(ms) ==
  /\ Has(ms, "bitSize")
  /\ \/ ms.bitSize <= 0
     \/ ms.bitSize > 8 * ctx[ms.type].size
     \/ ctx[ms.type].flags \cap {"STRING", "ARRAY", "STRUCT"} # {}

\* Entry k declares a member without a name, with a name in use, without a
\* $type, or with a $bitSize that is refused.
InvalidSpec(k) ==
  \E i \in 1..Len(Catalog[k].members) :
    \/ ~Has(Catalog[k].members[i], "name")
    \/ Catalog[k].members[i].name \in NamesBefore(k, i)
    \/ ~Has(Catalog[k].members[i], "type")
    \/ BadBitSize(Catalog[k].members[i])

\* C18: $define of a struct with a member that has no name, a name already
\* used in the struct (inherited names included), no $type, a $bitSize <= 0,
\* a $bitSize above 8 x the byte size, or a $bitSize on a string, array or
\* struct member throws, and the context gets no struct.
C18_InvalidMembers ==
  \A k \in 1..defined :
    InvalidSpec(k) => (defLog[k] # "" /\ EntryName(k) \notin DOMAIN ctx)

\* C18 witness: all the definitions are made; ten of them were refused for a
\* member, one for each of the six reasons among them, and the definitions
\* made before them are registered.
C18_Witness ==
  /\ defined = Len(Catalog)
  /\ Cardinality({k \in 1..defined : InvalidSpec(k)}) = 10
  /\ {"no name", "already exists", "no $type", "$bitSize zero or less",
      "$bitSize too big", "$bitSize for non-primitive"}
       \subseteq {defLog[k] : k \in {x \in 1..defined : InvalidSpec(x)}}
  /\ "Sig" \in DOMAIN ctx

\* The full name of entry k is taken when $define is called for it: by a
\* property the context is built with, or by an earlier definition.
NameTaken(k) ==
  \/ EntryName(k) \in DOMAIN NewContext
  \/ \E j \in 1..(k - 1) : defLog[j] = "" /\ EntryName(j) = EntryName(k)

\* What the context holds for the definitions made so far: a definition
\* under a taken name failed, any other definition of valid members is
\* retrievable as a struct under its full name.
RegistryOfDefinitions ==
  \A k \in 1..defined :
    /\ NameTaken(k) => defLog[k] = "already defined"
    /\ (~NameTaken(k) /\ ~InvalidSpec(k)) =>
         /\ defLog[k] = ""
         /\ getStruct(ctx, EntryName(k)) # NoType
         /\ getStruct(ctx, EntryName(k)).fullName = EntryName(k)
         /\ \A i \in 1..Len(Catalog[k].members) :
              MemberOf(getStruct(ctx, EntryName(k)), Catalog[k].members[i].name) # NoMember

\* A step keeps every entry of the context as it is.
EntriesKept == \A n \in DOMAIN ctx : n \in DOMAIN ctx' /\ ctx'[n] = ctx[n]

\* C19: $define under a full name the context already has fails and changes
\* no entry; any other definition is retrievable under exactly its full name
\* (name, or name$v1.v2 with a version), variants of one base name side by
\* side; no $define, $readObject or $updateObject replaces or removes an
\* entry.
C19_Registry == [](RegistryOfDefinitions) /\ [][EntriesKept]_vars

\* C19 witness: all the definitions are made; Header, StructVer$1 and U8 were
\* defined a second time, the context holds the first Header and both
\* variants of StructVer, and an object was read and written back.
C19_Witness ==
  /\ defined = Len(Catalog)
  /\ Cardinality({k \in 1..defined : NameTaken(k)}) = 3
  /\ Len(ctx["Header"].members) = 3
  /\ MemberOf(ctx["StructVer$1"], "FieldA") # NoMember
  /\ MemberOf(ctx["StructVer$2"], "FieldC") # NoMember
  /\ ctx["U8"] = U8
  /\ up.status = "ok"

-----------------------------------------------------------------------------
(* The window of a read *)

\* C20: every byte $readObject reads lies inside the window [start, end) of
\* its options (the whole buffer from start on when no end is given); a
\* member, array entry or reference target outside the window makes the
\* decode fail, so that an object is returned only if all its members lie
\* inside the window.
C20_BoundedReads ==
  Unedited => Covered(object) \subseteq {i \in 0..Len(buffer) : rd.start <= i /\ i < rd.end}

-----------------------------------------------------------------------------
(* Variants: unknown and terminal *)

\* The object at position p was decoded through a base type with $verInfo
\* and holds values for which no variant is registered.
UnknownVariant(p) ==
  /\ DeclaredType(p).verInfo # <<>>
  /\ DeclaredType(p).version = <<>>
  /\ \A i \in 1..Len(DeclaredType(p).verInfo) :
       DeclaredType(p).verInfo[i] \in DOMAIN Get(object, p).v.f
  /\ VariantName(DeclaredType(p), Get(object, p).v) \notin DOMAIN ctx

\* The root type of the last read has a $verInfo of one member, and the
\* buffer holds for that member a number for which no variant is registered.
RootVariantUnknown ==
  /\ rd.status # "none"
  /\ Len(getType(ctx, rd.type).verInfo) = 1
  /\ Len(ReadBuffer) >= rd.start + getType(ctx, rd.type).size
  /\ LET t == getType(ctx, rd.type)
         m == MemberOf(t, t.verInfo[1])
     IN (t.name \o "$" \o ToString(NumberAt(ReadBuffer, rd.start + m.offset,
                                              m.size, m.flags)))
          \notin DOMAIN ctx

\* C22: when no variant is registered under the full name of the decoded
\* $verInfo values, $readObject logs it, keeps the base type as $meta.type,
\* returns an object with exactly the members of the base type and goes on
\* with the rest of the graph; the read does not fail.
C22_UnknownVariant ==
  /\ RootVariantUnknown => rd.status = "ok"
  /\ Unedited =>
       \A p \in ObjectPositions : UnknownVariant(p) =>
         /\ Get(object, p).v.meta.type = DeclaredType(p)
         /\ DOMAIN Get(object, p).v.f =
              {DeclaredType(p).members[i].name : i \in 1..Len(DeclaredType(p).members)}
         /\ "no versioned type" \in SeqToSet(rd.log)
         /\ p # <<>> =>
              \A i \in 1..Len(OwnerOf(p).meta.type.members) :
                "PRIMITIVE" \in OwnerOf(p).meta.type.members[i].flags
                  => OwnerOf(p).meta.type.members[i].name \in DOMAIN OwnerOf(p).f

\* C22 witness: Pack was read with an Inner whose Id has no variant; Inner is
\* an Entry with the member Id alone, and the member After behind it is
\* decoded.
C22_Witness ==
  /\ Unedited
  /\ rd.type = "Pack"
  /\ UnknownVariant(<<Step("Inner", -1)>>)
  /\ Get(object, <<Step("Inner", -1)>>).v.meta.type = ctx["Entry"]
  /\ Get(object, <<Step("After", -1)>>) = VNum(44)

-----------------------------------------------------------------------------
(* Layout: order, holes, overlap *)

\* The structs the context holds.
Structs == {n \in DOMAIN ctx : "STRUCT" \in ctx[n].flags}

\* C24: in every struct accepted by $define the offsets of consecutive members
\* never decrease and no member has a negative $size.
C24_MonotonicOffsets ==
  \A n \in Structs :
    /\ \A i \in 1..(Len(ctx[n].members) - 1) :
         ctx[n].members[i + 1].offset >= ctx[n].members[i].offset
    /\ \A i \in 1..Len(ctx[n].members) : ctx[n].members[i].size >= 0

\* The bits of its storage word that bit-field member m leaves above itself.
RemainingBits(m) == m.size * 8 - (m.bitShift + bitSizeOf(UShr(m.bitMask, m.bitShift)))

\* C25: a member that directly follows a bit-field whose storage word is not
\* yet full is itself a bit-field of that word; no hole is left in a struct.
C25_NoHoles ==
  \A n \in Structs :
    \A i \in 1..(Len(ctx[n].members) - 1) :
      (ctx[n].members[i].bitMask # 0 /\ RemainingBits(ctx[n].members[i]) > 0)
        => /\ ctx[n].members[i + 1].bitMask # 0
           /\ ctx[n].members[i + 1].offset = ctx[n].members[i].offset

\* The bytes the member named n of the decoded object o occupies: the decoded
\* elements for an array, $size bytes at its offset for any other member.
Extent(o, n) ==
  LET m == MemberOf(o.meta.type, n)
      a == o.meta.absOffset + m.offset
  IN IF o.f[n].k = "arr" THEN Range(a, Len(o.f[n].v) * m.ref.size)
     ELSE Range(a, m.size)

\* C28: two members of a decoded object share a byte only when both are
\* bit-fields of one storage word; what follows an array lies after its
\* last element.
C28_NoOverlap ==
  \A p \in ObjectPositions :
    \A n1, n2 \in DOMAIN Get(object, p).v.f :
      LET o  == Get(object, p).v
          m1 == MemberOf(o.meta.type, n1)
          m2 == MemberOf(o.meta.type, n2)
      IN n1 # n2 /\ Extent(o, n1) \cap Extent(o, n2) # {}
           => m1.bitMask # 0 /\ m2.bitMask # 0 /\ m1.offset = m2.offset

\* C29: $updateObject called with {buffer, object} alone writes the root
\* object where it was read, at its $meta.absOffset.
C29_RootWrittenInPlace ==
  (up.status # "none" /\ up.start = 0) =>
    \A i \in 1..Len(up.trace) :
      (up.trace[i].k = "obj" /\ up.trace[i].path = PathString(<<>>))
        => up.trace[i].off = object.meta.absOffset

-----------------------------------------------------------------------------
(* Variants are terminal *)

\* The names of the members of the struct type t.
MemberNames(t) == {t.members[i].name : i \in 1..Len(t.members)}

-----------------------------------------------------------------------------
(* The reader's cursor around a nested decode *)

\* The value v is an object that was decoded, or an array that holds one.
Decoded(v) ==
  \/ v.k = "obj" /\ DOMAIN v.v.f # {}
  \/ v.k = "arr" /\ \E j \in 1..Len(v.v) : v.v[j].k = "obj"

\* The member at position p is read after a nested decode of an earlier
\* member of the same object.
AfterNested(p) ==
  /\ Last(p).i < 0
  /\ \E i, j \in 1..Len(OwnerOf(p).meta.type.members) :
       /\ i < j
       /\ OwnerOf(p).meta.type.members[j].name = Last(p).f
       /\ OwnerOf(p).meta.type.members[i].name \in DOMAIN OwnerOf(p).f
       /\ Decoded(OwnerOf(p).f[OwnerOf(p).meta.type.members[i].name])

\* C27: a member read after a nested decode is read as if the nested decode
\* had not happened: a number comes from the member's own offset in its
\* struct, a reference is resolved against the base of absolute offsets of
\* its struct, and the filter is asked about the member's own path.
C27_CursorRestored ==
  Unedited =>
    \A p \in ObjPaths(object) : AfterNested(p) =>
      /\ (Get(object, p).k = "num" /\ MemberAt(p).bitMask = 0 /\ MemberAt(p).ref = NoType)
           => Get(object, p).v =
                NumberAt(ReadBuffer, OwnerOf(p).meta.absOffset + MemberAt(p).offset,
                         MemberAt(p).size, MemberAt(p).flags)
      /\ (p \in ReferenceMembers /\ RawAt(p) # 0)
           => /\ Get(object, p).k = "obj"
              /\ Get(object, p).v.meta = StubAt(p).meta
              /\ Limited(p) <=> DOMAIN Get(object, p).v.f = {}

\* C27 witness: Seq was read at offset 2; after its isolated First was decoded
\* with both of its references, Second was resolved against the start offset
\* and Plain was read from the third byte of Seq.
C27_Witness ==
  /\ Unedited
  /\ rd.type = "Seq" /\ rd.start = 2
  /\ DOMAIN Get(object, <<Step("First", -1), Step("Abs", -1)>>).v.f # {}
  /\ DOMAIN Get(object, <<Step("First", -1), Step("Rel", -1)>>).v.f # {}
  /\ Get(object, <<Step("Second", -1)>>).v.meta.absOffset = 7
  /\ Get(object, <<Step("Second", -1), Step("Val", -1)>>) = VNum(9)
  /\ Get(object, <<Step("Plain", -1)>>) = VNum(77)

-----------------------------------------------------------------------------
(* vbios.js: the VBIOS header and the PowerPlay table it points to.          *)
(* The tables keep the members that lead from the header to the PowerPlay    *)
(* table, with the types and flags vbios.js gives them.                      *)

VBIOS_SIGNATURE == 43605

VBIOSTables == <<
  [name |-> "CommonTableHeader",
   verInfo |-> <<"TableFormatRevision", "TableContentRevision">>,
   members |-> << M("StructureSize", "U16LE"), M("TableFormatRevision", "U8"),
                  M("TableContentRevision", "U8") >>],
  [name |-> "StateTable",
   members |-> << M("NumEntries", "U8") >>],
  [name |-> "PowerPlayTable", flags |-> {"ISOLATE"}, extend |-> "CommonTableHeader",
   verInfo |-> <<"TableFormatRevision">>],
  [extend |-> "PowerPlayTable", version |-> <<1>>,
   members |-> << M("StateTable", "U16LE") @@ [ref |-> "StateTable"] >>],
  [name |-> "MasterDataTable", extend |-> "CommonTableHeader",
   members |-> << M("PowerPlayTable", "U16LE") @@
                    [ref |-> "PowerPlayTable", flags |-> {"ABSOLUTE_OFFSET"}] >>],
  [name |-> "RomTable", extend |-> "CommonTableHeader",
   members |-> << M("MasterDataTable", "U16LE") @@
                    [ref |-> "MasterDataTable", flags |-> {"ABSOLUTE_OFFSET"}] >>],
  [name |-> "VBIOSTable", flags |-> {"ISOLATE"},
   members |-> << M("PCIRomSignature", "U16LE"),
                  M("IBMSignature", "Str") @@ [length |-> LenNum(3)],
                  M("RomTable", "U16LE") @@ [ref |-> "RomTable"] >>] >>

RECURSIVE DefineAll(_, _, _)
\* The context after the definitions i.. of tables are handed to $define.
DefineAll(c, tables, i) ==
  IF i > Len(tables) THEN c
  ELSE DefineAll(Define(c, ResolveSpec(c, tables[i])).c, tables, i + 1)

\* The context vbios.js exports.
vbios == DefineAll(NewContext, VBIOSTables, 1)

\* The paths the filter of extractPowerPlayFromVBIOS turns down: those of the
\* references above that "RomTable.MasterDataTable.PowerPlayTable" does not
\* start with.
NotTowardsPowerPlay == {"RomTable.MasterDataTable.PowerPlayTable.StateTable"}

\* object[name], undefined if the object has no such property.
PropertyOf(obj, name) ==
  IF HasField(obj, name) THEN obj.f[name] ELSE [k |-> "undefined", v |-> 0]

\* The checks of loadVBIOSHeader on what readRoot gave: [null, header].
CheckHeader(r) ==
  LET header == r.obj
      null   == [null |-> TRUE, header |-> NoObject]
  IN IF r.R.st # "ok" THEN null
     ELSE IF PropertyOf(header, "PCIRomSignature") # VNum(VBIOS_SIGNATURE) THEN null
     ELSE IF PropertyOf(header, "IBMSignature") # VStr(<<73, 66, 77>>) THEN null
     ELSE IF PropertyOf(header, "RomTable").k = "obj"
             /\ PropertyOf(header, "RomTable").v.meta.absOffset < vbios["VBIOSTable"].size
       THEN null
     ELSE [null |-> FALSE, header |-> header]

loadVBIOSHeader(buf, start, maxDepth, reject) ==
  CheckHeader(readRoot(vbios, buf, vbios["VBIOSTable"], start, Len(buf), maxDepth, reject))

\* The end of extractPowerPlayFromVBIOS, ppTable being
\* header.RomTable.MasterDataTable.PowerPlayTable.
ExtractTable(buf, ppTable) ==
  IF ppTable.k # "obj" THEN [status |-> "throw", out |-> <<>>]
  ELSE IF PropertyOf(ppTable.v, "StructureSize").k # "num"
    THEN [status |-> "buffer", out |-> <<>>]
  ELSE IF ppTable.v.meta.absOffset + ppTable.v.f["StructureSize"].v > Len(buf)
    THEN [status |-> "null", out |-> <<>>]
  ELSE [status |-> "buffer",   \* buf.slice(ppStart, ppEnd)
        out    |-> SubSeq(buf, ppTable.v.meta.absOffset + 1,
                          ppTable.v.meta.absOffset + ppTable.v.f["StructureSize"].v)]

\* object.name where object is a value: a TypeError when it is null or
\* undefined.
Dot(value, name) ==
  IF value.k = "obj" THEN PropertyOf(value.v, name) ELSE [k |-> "TypeError", v |-> 0]

\* extractPowerPlayFromVBIOS(buf, offset): [status, out], status "null",
\* "buffer" or "throw".
extractPowerPlayFromVBIOS(buf, offset) ==
  LET h == loadVBIOSHeader(buf, offset, Infinity, NotTowardsPowerPlay)
  IN IF h.null THEN [status |-> "null", out |-> <<>>]
     ELSE ExtractTable(buf, Dot(Dot(PropertyOf(h.header, "RomTable"),
                                    "MasterDataTable"), "PowerPlayTable"))

\* The buffers handed to extractPowerPlayFromVBIOS: ROM images and buffers
\* that are no VBIOS.  An image holds the header at 0, then the ROM table (7),
\* the master data table (13) and the PowerPlay table (19), each with the
\* pointer and the header fields given, and is cut to len bytes.
VBIOSInputs ==
  LET Word(x) == <<x % 256, x \div 256>>
      Image(sig, ibm, rom, mdt, pp, size, fmt, len) ==
        SubSeq(Word(sig) \o ibm \o Word(rom)
               \o Word(6) \o <<1, 1>> \o Word(mdt)
               \o Word(6) \o <<1, 1>> \o Word(pp)
               \o Word(size) \o <<fmt, 0>> \o Word(30),
               1, len)
  IN {Image(sig, ibm, rom, mdt, pp, size, fmt, len) :
        sig \in {VBIOS_SIGNATURE, 43604}, ibm \in {<<73, 66, 77>>, <<73, 66, 0>>},
        rom \in {7, 0, 3}, mdt \in {13, 0}, pp \in {19, 0},
        size \in {6, 4, 9}, fmt \in {1, 7}, len \in {25, 22}}

\* The call is made at offset 0 or behind two bytes of other data.
InitVBIOS ==
  /\ ctx = vbios
  /\ defined = Len(VBIOSTables)
  /\ defLog = <<>>
  /\ \E image \in VBIOSInputs, offset \in {0, 2} :
       /\ buffer = [i \in 1..offset |-> 170] \o image
       /\ vb = [offset |-> offset, status |-> "ready", out |-> <<>>]
  /\ rd = NoRead
  /\ object = NoObject
  /\ edits = <<>>
  /\ up = NoUpdate
  /\ cmd = NewCommander
  /\ walk = NoWalk

\* vbios.extractPowerPlayFromVBIOS(buffer, offset)
ExtractPowerPlay ==
  /\ vb.status = "ready"
  /\ \E r \in {extractPowerPlayFromVBIOS(buffer, vb.offset)} :
       vb' = [vb EXCEPT !.status = r.status, !.out = r.out]
  /\ UNCHANGED <<ctx, defined, defLog, buffer, rd, object, edits, up, cmd, walk>>

SpecVBIOS == InitVBIOS /\ [][ExtractPowerPlay]_vars

\* The U16 at offset off of the buffer, -1 if the buffer ends before it.
U16At(off) == IF off + 2 <= Len(buffer) THEN WordAt(buffer, off, 2) ELSE -1

\* The offsets the pointers of the buffer lead to, from the header on.
RomTableAt         == vb.offset + U16At(vb.offset + 5)
MasterDataTableAt  == vb.offset + U16At(RomTableAt + 4)
PowerPlayTableAt   == vb.offset + U16At(MasterDataTableAt + 4)

\* The buffer is no VBIOS with a PowerPlay table: a wrong PCI ROM signature,
\* no 'IBM', a pointer of 0 on the way to the table, or a table that does
\* not end inside the buffer.
NoPowerPlay ==
  \/ U16At(vb.offset) # VBIOS_SIGNATURE
  \/ SubSeq(buffer, vb.offset + 3, vb.offset + 5) # <<73, 66, 77>>
  \/ U16At(vb.offset + 5) <= 0
  \/ U16At(RomTableAt + 4) <= 0
  \/ U16At(MasterDataTableAt + 4) <= 0
  \/ U16At(PowerPlayTableAt) < 0
  \/ PowerPlayTableAt + U16At(PowerPlayTableAt) > Len(buffer)

\* C23: extractPowerPlayFromVBIOS never throws; it returns null for a buffer
\* that is no VBIOS with a PowerPlay table, and the bytes it returns are
\* those of the table, StructureSize bytes from the table's offset.
C23_ExtractPowerPlay ==
  vb.status \notin {"none", "ready"} =>
    /\ vb.status # "throw"
    /\ NoPowerPlay => vb.status = "null"
    /\ vb.status = "buffer" =>
         vb.out = SubSeq(buffer, PowerPlayTableAt + 1,
                         PowerPlayTableAt + U16At(PowerPlayTableAt))

-----------------------------------------------------------------------------
(* amdtweak.js: the Commander runs the commands of argv one after another.   *)
(* A PowerPlay table is held as the value of the property that --set         *)
(* assigns: pp is the value in the decoded object, buf the value encoded in  *)
(* the buffer.                                                               *)

\* The length of argv.
ArgvLength == 8

\* The cards of the system, and those of them that use the AMDGPU driver.
ExistingCards == {0, 1, 2}
AmdgpuCards   == {0, 1}

\* The values a table holds for the property, in a file or after --set.
TableValues == {0, 1}

\* The entry addCardInternal pushes: no table loaded.
NoTable == [loaded |-> FALSE, pp |-> 0, buf |-> 0, dirty |-> FALSE]

addCardInternal(c, id) ==
  [c EXCEPT !.cards = Append(@, id), !.data = Append(@, NoTable)]

addCard(c, id) ==
  IF id \in SeqToSet(c.cards) THEN c
  ELSE IF id \notin AmdgpuCards THEN c
  ELSE addCardInternal(c, id)

RECURSIVE AddRange(_, _, _)
\* The pattern "i-j".
AddRange(c, i, j) == IF i > j THEN c ELSE AddRange(addCard(c, i), i + 1, j)

RECURSIVE AddAll(_, _)
\* The pattern "@", from card id on.
AddAll(c, id) ==
  IF id \in SeqToSet(c.cards) THEN AddAll(c, id + 1)
  ELSE IF id \notin ExistingCards THEN c
  ELSE AddAll(IF id \in AmdgpuCards THEN addCardInternal(c, id) ELSE c, id + 1)

RECURSIVE addCardBySelector(_, _, _)
\* The patterns k.. of the selectors given to --card, in order.
addCardBySelector(c, patterns, k) ==
  IF k > Len(patterns) THEN c
  ELSE IF patterns[k].kind = "id"
    THEN addCardBySelector(addCard(c, patterns[k].i), patterns, k + 1)
  ELSE IF patterns[k].kind = "range"
    THEN addCardBySelector(AddRange(c, patterns[k].i, patterns[k].j), patterns, k + 1)
  ELSE IF patterns[k].kind = "all"
    THEN addCardBySelector(AddAll(c, 0), patterns, k + 1)
  ELSE [c EXCEPT !.status = "failed"]

Pattern(kind, i, j) == [kind |-> kind, i |-> i, j |-> j]

\* The selectors --card is given.
Selectors ==
  { <<Pattern("id", 0, 0)>>, <<Pattern("id", 1, 0), Pattern("id", 0, 0)>>,
    <<Pattern("id", 0, 0), Pattern("id", 0, 0)>>, <<Pattern("id", 2, 0)>>,
    <<Pattern("range", 0, 2)>>, <<Pattern("all", 0, 0)>>,
    <<Pattern("id", 1, 0), Pattern("all", 0, 0)>>,
    <<Pattern("id", 1, 0), Pattern("invalid", 0, 0)>> }

RECURSIVE LoadEach(_, _, _, _, _, _)
\* The loop of a --read-*-pp command from card i on: v is what the source
\* holds, fail the card whose source cannot be read or decoded (0: none);
\* system commands pass over cards that are not system cards, and only they
\* reset the dirty flag.
LoadEach(c, i, v, fail, system, reset) ==
  IF i > Len(c.cards) THEN c
  ELSE IF system /\ c.cards[i] < 0 THEN LoadEach(c, i + 1, v, fail, system, reset)
  ELSE IF fail = i THEN [c EXCEPT !.status = "failed"]
  ELSE LoadEach([c EXCEPT !.data[i] =
                   [loaded |-> TRUE, pp |-> v, buf |-> v,
                    dirty |-> IF reset THEN FALSE ELSE @.dirty]],
                i + 1, v, fail, system, reset)

\* A table written as it is, its changes not encoded (the write C30 rules
\* out).
EncodedNever(d) == d

\* if (data[i].dirty) { vbios.$updateObject(...); data[i].dirty = false; }
Encoded(d) == IF d.dirty THEN [d EXCEPT !.buf = d.pp, !.dirty = FALSE] ELSE d

\* iofs.writeFileBinary(fileName, ppBuf) of the table d of card id, unless
\* the file system denies it.
Written(c, i, d, to, denied, updated) ==
  [c EXCEPT !.data[i] = d,
            !.written = IF denied THEN @
                        ELSE Append(@, [id |-> c.cards[i], to |-> to,
                                        bytes |-> d.buf, updated |-> updated])]

RECURSIVE WriteEach(_, _, _, _, _, _)
\* The loop of a --write-*-pp command from card i on: fail is the card whose
\* table $updateObject throws on (0: none).
WriteEach(c, i, fail, denied, system, to) ==
  IF i > Len(c.cards) THEN c
  ELSE IF system /\ c.cards[i] < 0 THEN WriteEach(c, i + 1, fail, denied, system, to)
  ELSE IF ~c.data[i].loaded THEN WriteEach(c, i + 1, fail, denied, system, to)
  ELSE IF fail = i /\ c.data[i].dirty THEN [c EXCEPT !.status = "failed"]
  ELSE WriteEach(Written(c, i, Encoded(c.data[i]), to, denied, c.data[i].dirty),
                 i + 1, fail, denied, system, to)

RECURSIVE SetEach(_, _, _, _)
\* The loop of --set from card i on: fail is the card whose table setKey
\* throws on (0: none).
SetEach(c, i, v, fail) ==
  IF i > Len(c.cards) THEN c
  ELSE IF ~c.data[i].loaded THEN [c EXCEPT !.status = "failed"]
  ELSE IF fail = i THEN [c EXCEPT !.status = "failed"]
  ELSE SetEach([c EXCEPT !.data[i].pp = v, !.data[i].dirty = TRUE], i + 1, v, fail)

\* checkFileName: with several cards the file name must hold a '@'.
checkFileName(c, placeholder) ==
  IF Len(c.cards) > 1 /\ ~placeholder THEN [c EXCEPT !.status = "failed"] ELSE c

\* run() has taken the next command and its n arguments from argv.
Taken(n) == [cmd EXCEPT !.argn = @ + 1 + n, !.written = <<>>]

CanRun(n) == cmd.status = "running" /\ cmd.argn + n < ArgvLength

InitCommander ==
  /\ ctx = vbios
  /\ defined = Len(VBIOSTables)
  /\ defLog = <<>>
  /\ buffer = <<>>
  /\ rd = NoRead
  /\ object = NoObject
  /\ edits = <<>>
  /\ up = NoUpdate
  /\ vb = NoCall
  /\ walk = NoWalk
  /\ cmd = NewCommander

Others == <<ctx, defined, defLog, buffer, rd, object, edits, up, vb, walk>>

\* --card SELECTOR...
Card ==
  /\ \E patterns \in Selectors :
       /\ CanRun(Len(patterns))
       /\ cmd' = addCardBySelector(
                   [Taken(Len(patterns)) EXCEPT !.cards = <<>>, !.data = <<>>],
                   patterns, 1)
  /\ UNCHANGED Others

\* --read-bios-pp
ReadBiosPP ==
  /\ CanRun(0)
  /\ \E v \in TableValues, fail \in 0..2 :
       cmd' = LoadEach(Taken(0), 1, v, fail, TRUE, TRUE)
  /\ UNCHANGED Others

\* --read-card-pp
ReadCardPP ==
  /\ CanRun(0)
  /\ \E v \in TableValues, fail \in 0..2 :
       cmd' = LoadEach(Taken(0), 1, v, fail, TRUE, TRUE)
  /\ UNCHANGED Others

\* --read-file-pp FILE
ReadFilePP ==
  /\ CanRun(1)
  /\ \E v \in TableValues, fail \in 0..2, placeholder \in BOOLEAN :
       \E c \in {checkFileName(Taken(1), placeholder)} :
         cmd' = IF c.status = "failed" THEN c
                ELSE LoadEach(IF c.cards = <<>> THEN addCardInternal(c, -1) ELSE c,
                              1, v, fail, FALSE, FALSE)
  /\ UNCHANGED Others

\* --write-card-pp
WriteCardPP ==
  /\ CanRun(0)
  /\ \E fail \in 0..2, denied \in BOOLEAN :
       cmd' = WriteEach(Taken(0), 1, fail, denied, TRUE, "card")
  /\ UNCHANGED Others

\* --write-file-pp FILE
WriteFilePP ==
  /\ CanRun(1)
  /\ \E fail \in 0..2, denied \in BOOLEAN, placeholder \in BOOLEAN :
       \E c \in {checkFileName(Taken(1), placeholder)} :
         cmd' = IF c.status = "failed" THEN c
                ELSE WriteEach(c, 1, fail, denied, FALSE, "file")
  /\ UNCHANGED Others

\* --set PROPERTY=VALUE
Set ==
  /\ CanRun(1)
  /\ \E v \in TableValues, fail \in 0..2 :
       cmd' = SetEach(Taken(1), 1, v, fail)
  /\ UNCHANGED Others

\* --quiet, --verbose
Verbosity ==
  /\ CanRun(0)
  /\ \E flag \in BOOLEAN : cmd' = [Taken(0) EXCEPT !.verboseFlag = flag]
  /\ UNCHANGED Others

\* --print, --extract-bios FILE, --extract-bios-pp FILE: the selection and the
\* tables stay as they are.
PrintOrExtract ==
  /\ \E n \in {0, 1} :
       /\ CanRun(n)
       /\ \E placeholder \in BOOLEAN :
            cmd' = IF n = 1 /\ cmd.cards # <<>>
                   THEN checkFileName(Taken(n), placeholder) ELSE Taken(n)
  /\ UNCHANGED Others

\* An argument that is no command, or a command whose handler refuses the
\* number of its arguments.
Refused ==
  /\ \E n \in {0, 1} :
       /\ CanRun(n)
       /\ cmd' = [Taken(n) EXCEPT !.status = "failed"]
  /\ UNCHANGED Others

NextCommander ==
  \/ Card \/ ReadBiosPP \/ ReadCardPP \/ ReadFilePP \/ WriteCardPP \/ WriteFilePP
  \/ Set \/ Verbosity \/ PrintOrExtract \/ Refused

SpecCommander == InitCommander /\ [][NextCommander]_vars

\* C30: cards and data have the same length and no card is selected twice;
\* what --write-card-pp or --write-file-pp has written for a card is the
\* encoding of the card's table as --set left it, and the table is no longer
\* dirty.
C30_CommandRunner ==
  /\ Len(cmd.cards) = Len(cmd.data)
  /\ \A i, j \in 1..Len(cmd.cards) : cmd.cards[i] = cmd.cards[j] => i = j
  /\ \A k \in 1..Len(cmd.written) :
       \E i \in 1..Len(cmd.cards) :
         /\ cmd.cards[i] = cmd.written[k].id
         /\ cmd.written[k].bytes = cmd.data[i].pp
         /\ ~cmd.data[i].dirty

\* C30 witness: with two cards selected, a write command has written both
\* tables, each after passing it to $updateObject.
C30_Witness ==
  /\ Len(cmd.cards) = 2
  /\ Len(cmd.written) = 2
  /\ \A k \in 1..2 : cmd.written[k].updated /\ cmd.written[k].bytes = 1

-----------------------------------------------------------------------------
(* The reader call by call: readObject, readMember and readNested as steps   *)
(* over the stack of readObject calls in progress, for structs whose         *)
(* reference members point back at the struct that holds them.  Such a       *)
(* struct comes from Struct.$addMember called on a registered struct with    *)
(* $ref the struct itself, or a struct defined before it.                    *)

\* The deepest stack of readObject calls that is followed.
MaxStack == 6

Ref(name, ref, flags) == [name |-> name, ref |-> ref, flags |-> flags]

\* Struct name -> members, each a U8; ref is the name of the struct a
\* reference member points to ("" for a plain number).
LinkedStructs ==
  [n \in {"Node", "Tree", "Branch", "List"} |->
     IF n = "Node"
       THEN << Ref("Val", "", {}), Ref("Next", "Node", {"ABSOLUTE_OFFSET"}) >>
     ELSE IF n = "Tree"
       THEN << Ref("Child", "Branch", {"RELATIVE_OFFSET"}) >>
     ELSE IF n = "Branch"
       THEN << Ref("Up", "Tree", {"ABSOLUTE_OFFSET"}), Ref("Val", "", {}) >>
     ELSE << Ref("Val", "", {}), Ref("Next", "List", {"RELATIVE_OFFSET"}) >>]

\* The buffers decoded: every buffer of two or three bytes below 3.
LinkedInputs == UNION {[1..n -> 0..2] : n \in 2..3}

\* A readObject call in progress: the struct, where it is decoded, and the
\* member (1-based) that is read next.
Frame(type, absOffset) == [type |-> type, absOffset |-> absOffset, i |-> 1]

\* ctx.$readObject({buffer, type}) or ({buffer, type, maxDepth: 1}) has
\* entered readRoot.
InitWalk ==
  /\ ctx = NewContext
  /\ defined = 0
  /\ defLog = <<>>
  /\ buffer \in LinkedInputs
  /\ rd = NoRead
  /\ object = NoObject
  /\ edits = <<>>
  /\ up = NoUpdate
  /\ vb = NoCall
  /\ cmd = NewCommander
  /\ \E type \in DOMAIN LinkedStructs, maxDepth \in {Infinity, 1} :
       walk = [status |-> "running", maxDepth |-> maxDepth,
               stack |-> <<Frame(type, 0)>>]

\* The readObject call on top of the stack, and the member it reads next.
Top == walk.stack[Len(walk.stack)]

Current == LinkedStructs[Top.type][Top.i]

\* The raw value of the member read next: [st, v].
RawValue == readPrimitiveValue(buffer, Top.absOffset + Top.i - 1, 1, U8.flags)

\* this.depth >= this.maxDepth: the reference is not followed.
TooDeep == Len(walk.stack) - 1 >= walk.maxDepth

\* The loop of readObject goes on with the next member.
NextMember(stack) == [stack EXCEPT ![Len(stack)].i = @ + 1]

\* readMember returns without a nested decode: a number, null for a reference
\* of 0, a stub at maxDepth; a read outside the buffer throws.
ReadValue ==
  /\ walk.status = "running"
  /\ Top.i <= Len(LinkedStructs[Top.type])
  /\ \E p \in {RawValue} :
       IF p.st # "ok" THEN walk' = [walk EXCEPT !.status = "thrown"]
       ELSE /\ Current.ref = "" \/ p.v = 0 \/ TooDeep
            /\ walk' = [walk EXCEPT !.stack = NextMember(@)]
  /\ UNCHANGED <<ctx, defined, defLog, buffer, rd, object, edits, up, vb, cmd>>

\* readMember calls readNested for a reference that is not 0: readObject is
\* entered for the struct referred to at the offset resolved.
EnterNested ==
  /\ walk.status = "running"
  /\ Top.i <= Len(LinkedStructs[Top.type])
  /\ Len(walk.stack) < MaxStack
  /\ \E p \in {RawValue} :
       /\ p.st = "ok" /\ Current.ref # "" /\ p.v # 0 /\ ~TooDeep
       /\ walk' = [walk EXCEPT !.stack =
                     Append(@, Frame(Current.ref,
                                     IF "ABSOLUTE_OFFSET" \in Current.flags
                                     THEN p.v ELSE Top.absOffset + p.v))]
  /\ UNCHANGED <<ctx, defined, defLog, buffer, rd, object, edits, up, vb, cmd>>

\* readObject has read its last member and returns: to readNested and the
\* member loop of the caller, or from readRoot.
ReturnObject ==
  /\ walk.status = "running"
  /\ Top.i > Len(LinkedStructs[Top.type])
  /\ walk' = IF Len(walk.stack) = 1
             THEN [walk EXCEPT !.status = "returned", !.stack = <<>>]
             ELSE [walk EXCEPT !.stack =
                     NextMember(SubSeq(@, 1, Len(@) - 1))]
  /\ UNCHANGED <<ctx, defined, defLog, buffer, rd, object, edits, up, vb, cmd>>

NextWalk == ReadValue \/ EnterNested \/ ReturnObject

SpecWalk == InitWalk /\ [][NextWalk]_vars

\* C21: a decode is a bounded traversal: no readObject call is entered for a
\* struct at an offset where a call for the same struct is still in progress
\* (the reader holds no other state, so such a call repeats its caller and
\* the decode never returns).
C21_BoundedTraversal ==
  \A i, j \in 1..Len(walk.stack) :
    (walk.stack[i].type = walk.stack[j].type
       /\ walk.stack[i].absOffset = walk.stack[j].absOffset) => i = j

====
